---------------------------- MODULE Spec2Model ----------------------------
(***************************************************************************)
(* A model of the forensic disk analyzer:                                  *)
(*   - metadata_extractor.py : FixedMetadataExtractor (filesystem          *)
(*     detection, pre-scan, offset -> timestamp index, lookup) and its     *)
(*     GenericMetadataExtractor wrapper;                                   *)
(*   - forensic_gui_analyzer.py : DiskAnalyzer (analyze_blocks,            *)
(*     correlate_blocks) and the ForensicGUI controller (worker threads,   *)
(*     progress queue).                                                    *)
(*                                                                         *)
(* Evidence images are byte-addressed: every struct.unpack of the source   *)
(* is a little-endian read of image bytes.  A bytes object read from the   *)
(* medium is the range of the (immutable) image it was read from, so that  *)
(* data[i] is the image byte at data.at + i.  Python's None is the record  *)
(* None; a raised exception is the value Raise (or -1 for an integer       *)
(* unpack) which the caller's try/except handles as the source does.       *)
(*                                                                         *)
(* Three specifications share the variables:                               *)
(*   Spec     - one DiskAnalyzer driven through its API by one caller;     *)
(*   SpecMeta - one GenericMetadataExtractor (detect, pre-scan, lookup);   *)
(*   SpecGui  - the ForensicGUI controller with its worker threads.        *)
(***************************************************************************)
EXTENDS Integers, Sequences, FiniteSets, TLC

VARIABLES
    media,            \* the evidence medium: [image, size, bad] (environment)
    analyzers,        \* heap of DiskAnalyzer objects: id -> fields
    frames,           \* running/returned calls and worker threads: id -> frame
    progress_queue,   \* ForensicGUI.progress_queue (the progress sink of a call)
    gui,              \* ForensicGUI fields: analyzer, analysis_thread, status ...
    extractor,        \* a GenericMetadataExtractor with its FixedMetadataExtractor
    probe             \* observations of the last operation (ghost)

vars == <<media, analyzers, frames, progress_queue, gui, extractor, probe>>

-----------------------------------------------------------------------------
(* Python values *)

None == [kind |-> "None"]
Raise == [kind |-> "Raise"]

Min(a, b) == IF a <= b THEN a ELSE b
Max(a, b) == IF a >= b THEN a ELSE b

\* 2^31 - 1, the largest integer of the model
IntMax == 65536 * 32767 + 65535

\* little-endian encodings, used to lay out the images
LE16(v) == <<v % 256, (v \div 256) % 256>>
LE32(v) == <<v % 256, (v \div 256) % 256, (v \div 65536) % 256,
             (v \div 16777216) % 256>>

\* the bytes `seq` laid out at absolute offset `off`
Patch(off, seq) == [p \in off..(off + Len(seq) - 1) |-> seq[p - off + 1]]

-----------------------------------------------------------------------------
(* Evidence images.  Each image is a size, a sparse byte layout and a fill  *)
(* byte for every position the layout leaves out.  They are test fixtures   *)
(* in the manner of generate_test_data.py: the smallest images holding the  *)
(* on-disk structures the parsers look for.                                 *)

SigNTFS  == <<78, 84, 70, 83>>                      \* b'NTFS'
SigFILE  == <<70, 73, 76, 69>>                      \* b'FILE'
SigFAT32 == <<70, 65, 84, 51, 50>>                  \* b'FAT32'
SigFAT32Padded == <<70, 65, 84, 51, 50, 32, 32, 32>>   \* b'FAT32   '
SigPNG   == <<137, 80, 78, 71>>                     \* b'\x89PNG'
SigEXFAT == <<69, 88, 70, 65, 84, 32, 32, 32>>      \* b'EXFAT   '

\* FILETIME 2024-01-01, 2024-01-02, 2024-01-03 (00:00:00Z), little-endian
Ft20240101 == <<0, 0, 184, 135, 26, 51, 218, 1>>
Ft20240102 == <<0, 192, 33, 178, 227, 51, 218, 1>>
Ft20240103 == <<0, 128, 139, 220, 172, 52, 218, 1>>
FtZero == <<0, 0, 0, 0, 0, 0, 0, 0>>

\* FILETIME 3: three ticks of 100 ns after 1601-01-01, little-endian
FtTick == <<3, 0, 0, 0, 0, 0, 0, 0>>

\* An MFT entry: 'FILE', first-attribute offset 56 at 0x14, there a resident
\* $STANDARD_INFORMATION (type 0x10, length 96, content at +24) with the four
\* FILETIMEs created, modified, mft-changed, accessed, then the end marker.
MftEntry(at, created, modified, changed, accessed) ==
    Patch(at, SigFILE) @@ Patch(at + 20, LE16(56))
    @@ Patch(at + 56, LE32(16)) @@ Patch(at + 60, LE32(96))
    @@ Patch(at + 64, <<0>>) @@ Patch(at + 76, LE16(24))
    @@ Patch(at + 80, created \o modified \o changed \o accessed)
    @@ Patch(at + 152, <<255, 255, 255, 255>>)

\* An MFT entry with the signature whose first attribute is a $FILE_NAME
\* (type 0x30) of length 0: the walk stops at it and decodes nothing.
MftEntryNoInfo(at) ==
    Patch(at, SigFILE) @@ Patch(at + 20, LE16(56)) @@ Patch(at + 56, LE32(48))

\* NTFS: 512-byte sectors, 8 per cluster, MFT at cluster 1 (offset 4096).
\* Entries at 4096 (block-aligned) and 5120, an undecodable one at 6144.
NtfsBytes ==
    Patch(3, SigNTFS) @@ Patch(11, LE16(512)) @@ Patch(13, <<8>>)
    @@ Patch(48, LE32(1) \o LE32(0))
    @@ MftEntry(4096, Ft20240101, Ft20240101, Ft20240102, Ft20240103)
    @@ MftEntry(5120, Ft20240101, Ft20240103, Ft20240102, FtZero)
    @@ MftEntryNoInfo(6144)

\* An ext4 inode in use: i_mode, then i_atime, i_ctime, i_mtime at 8, 12, 16
Ext4Inode(at, mode, atime, ctime, mtime) ==
    Patch(at, LE16(mode)) @@ Patch(at + 8, LE32(atime))
    @@ Patch(at + 12, LE32(ctime)) @@ Patch(at + 16, LE32(mtime))

\* ext4: superblock at 1024 (16384 blocks = 2 groups, 1024-byte blocks, 2
\* inodes per group, 128-byte inodes), descriptors at 2048 and 2080, inode
\* tables at blocks 4 and 8.  The second inode of group 0 is not in use.
Ext4Bytes ==
    Patch(1024, LE32(4)) @@ Patch(1028, LE32(16384)) @@ Patch(1048, LE32(0))
    @@ Patch(1064, LE32(2)) @@ Patch(1080, LE16(61267))
    @@ Patch(1112, LE16(128))
    @@ Patch(2056, LE32(4)) @@ Patch(2088, LE32(8))
    @@ Ext4Inode(4096, 33188, 1704153600, 1704067200, 1704067200)
    @@ Ext4Inode(8192, 33188, 1704067200, 1704067200, 1704153600)
    @@ Ext4Inode(8320, 16877, 1704067200, 1704153600, 0)

\* A FAT directory entry: lead byte, created time/date at 0x0E/0x10,
\* accessed date at 0x12, modified time/date at 0x16/0x18
FatEntry(at, lead, ctime, cdate, adate, mtime, mdate) ==
    Patch(at, <<lead>>) @@ Patch(at + 14, LE16(ctime) \o LE16(cdate))
    @@ Patch(at + 18, LE16(adate)) @@ Patch(at + 22, LE16(mtime) \o LE16(mdate))

\* FAT32: 512-byte sectors, 6 reserved sectors, 1 FAT of 1 sector: the data
\* region starts at 3584.  Entries in the sectors at 3584 and 4096, a deleted
\* entry (0xE5) in between.
Fat32Bytes ==
    Patch(11, LE16(512)) @@ Patch(13, <<1>>) @@ Patch(14, LE16(6))
    @@ Patch(16, <<1>>) @@ Patch(36, LE32(1)) @@ Patch(82, SigFAT32Padded)
    @@ FatEntry(3584, 65, 25541, 22561, 22562, 25541, 22562)
    @@ FatEntry(3616, 229, 25541, 22561, 22561, 25541, 22561)
    @@ FatEntry(4160, 66, 0, 22562, 22561, 25541, 22561)

\* The NTFS image with, besides, the ext4 magic in its superblock and the
\* FAT32 type string at offset 82 of its boot sector
MixedBytes ==
    NtfsBytes @@ Patch(1080, LE16(61267)) @@ Patch(82, SigFAT32Padded)

\* The ext4 image with, besides, the FAT32 type string at offset 82 of its
\* boot sector (its BPB fields are zero)
Ext4FatBytes == Ext4Bytes @@ Patch(82, SigFAT32Padded)

\* An exFAT boot sector: the OEM name 'EXFAT   ' at offset 3, nothing else
ExfatBytes == Patch(3, SigEXFAT)

\* A boot sector that only mentions 'FAT32' in a message text at offset 200
\* (BPB: 512-byte sectors, 2 reserved sectors, no FAT); a directory entry in
\* the sector at 1024, its accessed date 0
FatTextBytes ==
    Patch(11, LE16(512)) @@ Patch(14, LE16(2)) @@ Patch(200, SigFAT32)
    @@ FatEntry(1024, 65, 25541, 22561, 0, 25541, 22562)

\* The NTFS image whose entry at 4096 was modified at FILETIME 3 and never
\* accessed
TickBytes ==
    MftEntry(4096, Ft20240101, FtTick, Ft20240102, FtZero) @@ NtfsBytes

\* The NTFS image whose entry at 6144 begins with a $FILE_NAME attribute of
\* length 1000, more than the 968 bytes that follow its header
WalkBytes == Patch(6204, LE32(1000)) @@ NtfsBytes

\* No filesystem signature: a PNG header, then text; the last 128 bytes of the
\* second 4096-byte block differ from the rest; the third block is short.
RawBytes ==
    Patch(0, SigPNG) @@ [p \in 7936..8191 |-> IF p < 8064 THEN 67 ELSE 66]

ImageNames ==
    {"ntfs", "ext4", "fat32", "raw", "zero", "wide",
     "mixed", "ext4fat", "exfat", "fattext", "tick",
     "walk", "fatodd"}

\* Number of 2-byte blocks of the image "wide"
WideBlocks == 52

\* First block of "wide" that repeats the content of block 0
WideEcho == 50

\* Number of 1-byte blocks of the image "long", more than analyze_blocks stores
LongBlocks == 1003

ImageSize(name) ==
    CASE name = "ntfs"  -> 8192
      [] name = "ext4"  -> 9216
      [] name = "fat32" -> 5120
      [] name = "raw"   -> 8492
      [] name = "zero"  -> 8192
      [] name = "wide"  -> 2 * WideBlocks
      [] name = "mixed" -> 8192
      [] name = "ext4fat" -> 9216
      [] name = "exfat" -> 2048
      [] name = "fattext" -> 2048
      [] name = "tick" -> 8192
      [] name = "walk" -> 8192
      [] name = "fatodd" -> 5220
      [] name = "long" -> LongBlocks

\* "wide": block 0 and every block from WideEcho on hold 'AA'; block b in
\* between holds the byte b twice, unlike every other block.
WideBytes ==
    [p \in 0..(2 * WideBlocks - 1) |->
        IF p \div 2 = 0 \/ p \div 2 >= WideEcho THEN 65 ELSE p \div 2]

ImageLayout(name) ==
    CASE name = "ntfs"  -> NtfsBytes
      [] name = "ext4"  -> Ext4Bytes
      [] name = "fat32" -> Fat32Bytes
      [] name = "raw"   -> RawBytes
      [] name = "wide"  -> WideBytes
      [] name = "mixed" -> MixedBytes
      [] name = "ext4fat" -> Ext4FatBytes
      [] name = "exfat" -> ExfatBytes
      [] name = "fattext" -> FatTextBytes
      [] name = "tick" -> TickBytes
      [] name = "walk" -> WalkBytes
      [] name = "fatodd" -> Fat32Bytes
      [] OTHER          -> << >>

ImageFill(name) == IF name = "raw" THEN 65 ELSE 0

\* The medium behind a reader: the image it holds (its bytes are `layout`
\* where that is defined and `fill` elsewhere) and the offsets at which a
\* read fails at present.
NewMedia(image) ==
    [image |-> image, size |-> ImageSize(image), bad |-> {},
     layout |-> ImageLayout(image), fill |-> ImageFill(image)]

\* the byte of the medium at position p
ByteAt(p) ==
    IF p \in DOMAIN media.layout THEN media.layout[p] ELSE media.fill

\* Offsets at which a read may fail (media errors come and go)
BadCandidates(name) ==
    CASE name = "ntfs"  -> {0, 4096}
      [] name = "ext4"  -> {2048, 4096}
      [] name = "fat32" -> {0, 3584}
      [] name = "raw"   -> {4096}
      [] name = "zero"  -> {4096}
      [] name = "wide"  -> {2}
      [] name = "mixed" -> {0}
      [] name = "ext4fat" -> {1024}
      [] name = "exfat" -> {1024}
      [] name = "fattext" -> {1024}
      [] name = "tick" -> {}
      [] name = "walk" -> {}
      [] name = "fatodd" -> {4608}
      [] name = "long" -> {5}

-----------------------------------------------------------------------------
(* The evidence source contract: read(offset, length) -> bytes, or IOError, *)
(* and the bytes operations the source uses                                 *)

\* the bytes object holding image bytes at .. at + len - 1
Bytes(at, len) == [kind |-> "bytes", at |-> at, len |-> len]

\* RawDiskReader.read / E01Reader.read: seek, then read up to `length`
\* bytes, fewer at the end of the medium, none beyond it
ReaderRead(offset, length) ==
    IF offset \in media.bad THEN Raise
    ELSE Bytes(offset, Max(0, Min(length, media.size - offset)))

\* data[i] for 0 <= i < len(data)
Byte(data, i) == ByteAt(data.at + i)

\* data[a:b] (0 <= a, 0 <= b; clamped at the end of data)
Slice(data, a, b) ==
    Bytes(data.at + Min(a, data.len),
          Max(0, Min(b, data.len) - Min(a, data.len)))

\* data[-n:] for n > 0
LastN(data, n) == Slice(data, Max(0, data.len - n), data.len)

\* data == literal, for a literal byte string
Is(data, literal) ==
    /\ data.len = Len(literal)
    /\ \A i \in 1..Len(literal) : Byte(data, i - 1) = literal[i]

\* data.startswith(prefix)
StartsWith(data, prefix) == Is(Slice(data, 0, Len(prefix)), prefix)

\* needle in data
Contains(data, needle) ==
    \E i \in 0..(data.len - Len(needle)) :
        Is(Slice(data, i, i + Len(needle)), needle)

\* struct.unpack('<H', data[o:o+2])[0]; -1 stands for struct.error
U16At(data, o) ==
    IF data.len < o + 2 THEN -1
    ELSE Byte(data, o) + 256 * Byte(data, o + 1)

\* struct.unpack('<I', data[o:o+4])[0]; -1 stands for struct.error.  A value
\* of 2^31 or more reads as IntMax.
U32At(data, o) ==
    IF data.len < o + 4 THEN -1
    ELSE IF Byte(data, o + 3) >= 128 THEN IntMax
    ELSE Byte(data, o) + 256 * Byte(data, o + 1) + 65536 * Byte(data, o + 2)
         + 16777216 * Byte(data, o + 3)

\* struct.unpack('<Q', data[o:o+8])[0] kept as its eight bytes (an injective
\* encoding of the value; all zero is the value 0); << >> is struct.error
U64RawAt(data, o) ==
    IF data.len < o + 8 THEN << >>
    ELSE [i \in 1..8 |-> Byte(data, o + i - 1)]

\* struct.unpack('<Q', data[o:o+8])[0] as an integer, IntMax when 2^31 or more
U64At(data, o) ==
    IF data.len < o + 8 THEN -1
    ELSE IF ~Is(Slice(data, o + 4, o + 8), <<0, 0, 0, 0>>) THEN IntMax
    ELSE U32At(data, o)

-----------------------------------------------------------------------------
(* metadata_extractor.py: timestamp conversions.  A datetime is a record:   *)
(* civil fields for the Unix and FAT clocks, microseconds since 1601 (eight *)
(* little-endian bytes) for FILETIME.                                       *)

\* floor(raw / 10) of a little-endian byte string, taken from the most
\* significant byte down; `rem` is the running remainder
RECURSIVE DivTenFrom(_, _, _)
DivTenFrom(raw, i, rem) ==
    IF i > Len(raw) THEN << >>
    ELSE <<(rem * 256 + raw[Len(raw) + 1 - i]) \div 10>>
         \o DivTenFrom(raw, i + 1, (rem * 256 + raw[Len(raw) + 1 - i]) % 10)

\* most significant byte first
DivTen(raw) == DivTenFrom(raw, 1, 0)

\* a > b for byte strings of one length, most significant byte first
RECURSIVE BytesGreater(_, _, _)
BytesGreater(a, b, i) ==
    IF i > Len(a) THEN FALSE
    ELSE IF a[i] # b[i] THEN a[i] > b[i]
    ELSE BytesGreater(a, b, i + 1)

\* datetime.max - datetime(1601, 1, 1) in microseconds, most significant first
MaxMicroseconds1601 == <<3, 173, 162, 163, 20, 249, 159, 255>>

\* a conversion without the test for 0: FILETIME 0 would be 1601-01-01
FiletimeToDatetimeOfZero(filetime) ==
    LET Since1601(us) ==
            IF BytesGreater(us, MaxMicroseconds1601, 1) THEN None
            ELSE [kind |-> "datetime1601", us |-> us]
    IN  Since1601(DivTen(filetime))

\* _filetime_to_datetime: 0 is None; epoch + timedelta(microseconds =
\* filetime / 10), None when that overflows datetime.  (The source divides in
\* floating point and rounds to a microsecond; the model takes the floor.)
FiletimeToDatetime(filetime) ==
    LET Since1601(us) ==
            IF BytesGreater(us, MaxMicroseconds1601, 1) THEN None
            ELSE [kind |-> "datetime1601", us |-> us]
    IN  IF filetime = FtZero THEN None
        ELSE Since1601(DivTen(filetime))

IsLeap(y) == (y % 4 = 0 /\ y % 100 # 0) \/ y % 400 = 0

DaysInMonth(y, m) ==
    IF m = 2 THEN (IF IsLeap(y) THEN 29 ELSE 28)
    ELSE IF m \in {4, 6, 9, 11} THEN 30 ELSE 31

\* datetime(year, month, day, hour, minute, second); Raise is ValueError
Datetime(y, mo, d, h, mi, s) ==
    IF /\ y \in 1..9999 /\ mo \in 1..12 /\ d >= 1 /\ d <= DaysInMonth(y, mo)
       /\ h \in 0..23 /\ mi \in 0..59 /\ s \in 0..59
    THEN [kind |-> "datetime", year |-> y, month |-> mo, day |-> d,
          hour |-> h, minute |-> mi, second |-> s]
    ELSE Raise

\* the civil date <<y, m, d>> of day number z counted from 1970-01-01 (z >= 0)
CivilFromDays(z) ==
    LET FromDoe(doe) ==
            LET FromYoe(yoe) ==
                    LET FromDoy(doy) ==
                            LET FromMp(mp) ==
                                    <<yoe + 1600 + (IF mp < 10 THEN 0 ELSE 1),
                                      IF mp < 10 THEN mp + 3 ELSE mp - 9,
                                      doy - (153 * mp + 2) \div 5 + 1>>
                            IN  FromMp((5 * doy + 2) \div 153)
                    IN  FromDoy(doe - (365 * yoe + yoe \div 4 - yoe \div 100))
            IN  FromYoe((doe - doe \div 1460 + doe \div 36524
                         - doe \div 146096) \div 365)
    IN  FromDoe(z + 719468 - 4 * 146097)

\* _unix_to_datetime of an integer: 0 is None; datetime.utcfromtimestamp
\* (for a value that is None the caller gets None without this conversion)
UnixToDatetime(timestamp) ==
    LET At(date, sod) ==
            Datetime(date[1], date[2], date[3],
                     sod \div 3600, (sod % 3600) \div 60, sod % 60)
    IN  IF timestamp = 0 THEN None
        ELSE At(CivilFromDays(timestamp \div 86400), timestamp % 86400)

\* a decoder that would not double the two-second count of the time word
FatDatetimeWholeSeconds(date, time) ==
    LET Checked(dt) == IF dt = Raise THEN None ELSE dt
        month == (date \div 32) % 16
        day == date % 32
    IN  IF date = 0 THEN None
        ELSE IF month = 0 \/ month > 12 \/ day = 0 \/ day > 31 THEN None
        ELSE Checked(Datetime(((date \div 512) % 128) + 1980, month, day,
                              (time \div 2048) % 32, (time \div 32) % 64,
                              time % 32))

\* _fat_datetime: date 0 is None; an out-of-range month or day is None, and
\* so is whatever datetime() rejects (try/except)
FatDatetime(date, time) ==
    LET Checked(dt) == IF dt = Raise THEN None ELSE dt
        month == (date \div 32) % 16
        day == date % 32
    IN  IF date = 0 THEN None
        ELSE IF month = 0 \/ month > 12 \/ day = 0 \/ day > 31 THEN None
        ELSE Checked(Datetime(((date \div 512) % 128) + 1980, month, day,
                              (time \div 2048) % 32, (time \div 32) % 64,
                              (time % 32) * 2))

Timestamps(m, c, a, b) == [mtime |-> m, ctime |-> c, atime |-> a, btime |-> b]

\* x > y for two datetimes of one clock (the timestamps of one record come
\* from one parser, hence from one clock)
After(x, y) ==
    LET Civil(dt) == <<dt.year, dt.month, dt.day, dt.hour, dt.minute, dt.second>>
    IN  CASE x.kind = "datetime1601" /\ y.kind = "datetime1601" ->
                 BytesGreater(x.us, y.us, 1)
          [] x.kind = "datetime" /\ y.kind = "datetime" ->
                 BytesGreater(Civil(x), Civil(y), 1)

-----------------------------------------------------------------------------
(* metadata_extractor.py: the structure parsers *)

MftEndMarker == <<255, 255, 255, 255>>
AttrStandardInformation == <<16, 0, 0, 0>>

\* the four FILETIMEs of a resident $STANDARD_INFORMATION whose content is at
\* attr_start; a slice that is too short is struct.error, swallowed
StandardInformation(data, attr_start) ==
    LET Decode(created, modified, mft_modified, accessed) ==
            IF << >> \in {created, modified, mft_modified, accessed} THEN None
            ELSE Timestamps(FiletimeToDatetime(modified),
                            FiletimeToDatetime(mft_modified),
                            FiletimeToDatetime(accessed),
                            FiletimeToDatetime(created))
    IN  Decode(U64RawAt(data, attr_start), U64RawAt(data, attr_start + 8),
               U64RawAt(data, attr_start + 16), U64RawAt(data, attr_start + 24))

\* the attribute walk of _parse_ntfs_mft_entry from cursor `current`
RECURSIVE WalkAttributes(_, _)
WalkAttributes(data, current) ==
    LET Advance(attr_length) ==
            IF attr_length = 0 \/ attr_length > 1024 THEN None
            ELSE WalkAttributes(data, current + attr_length)
    IN  IF ~(current < data.len - 64) THEN None
        ELSE IF Is(Slice(data, current, current + 4), MftEndMarker) THEN None
        ELSE IF /\ Is(Slice(data, current, current + 4), AttrStandardInformation)
                /\ Byte(data, current + 8) = 0
        THEN StandardInformation(data, current + U16At(data, current + 20))
        ELSE Advance(U32At(data, current + 4))

\* the values `current` takes in the attribute walk of _parse_ntfs_mft_entry,
\* the last one being the value the walk ends with
RECURSIVE WalkCursors(_, _)
WalkCursors(data, current) ==
    LET Advance(attr_length) ==
            IF attr_length = 0 \/ attr_length > 1024 THEN <<current>>
            ELSE <<current>> \o WalkCursors(data, current + attr_length)
    IN  IF ~(current < data.len - 64) THEN <<current>>
        ELSE IF Is(Slice(data, current, current + 4), MftEndMarker)
        THEN <<current>>
        ELSE IF /\ Is(Slice(data, current, current + 4), AttrStandardInformation)
                /\ Byte(data, current + 8) = 0
        THEN <<current>>
        ELSE Advance(U32At(data, current + 4))

\* _parse_ntfs_mft_entry
ParseNtfsMftEntry(data) ==
    IF ~Is(Slice(data, 0, 4), SigFILE) THEN None
    ELSE IF data.len < 22 THEN None        \* struct.error, swallowed
    ELSE WalkAttributes(data, U16At(data, 20))

\* _parse_ext4_inode
ParseExt4Inode(data) ==
    IF data.len < 128 THEN None
    ELSE IF U16At(data, 0) = 0 THEN None
    ELSE Timestamps(UnixToDatetime(U32At(data, 16)),
                    UnixToDatetime(U32At(data, 12)),
                    UnixToDatetime(U32At(data, 8)),
                    IF data.len >= 160 /\ U32At(data, 156) > 0
                    THEN UnixToDatetime(U32At(data, 156))
                    ELSE None)

\* _parse_fat32_entry
ParseFat32Entry(entry) ==
    LET Decode(created, accessed, modified) ==
            Timestamps(modified, created, accessed, created)
    IN  IF entry.len < 26 THEN None          \* struct.error, swallowed
        ELSE Decode(FatDatetime(U16At(entry, 16), U16At(entry, 14)),
                    FatDatetime(U16At(entry, 18), 0),
                    FatDatetime(U16At(entry, 24), U16At(entry, 22)))

-----------------------------------------------------------------------------
(* metadata_extractor.py: FixedMetadataExtractor.  An extractor is a record *)
(* of the object's fields; `reads` lists the offsets read by its latest     *)
(* detection and pre-scan (an observation, not a field of the source).      *)

\* FixedMetadataExtractor.__init__
NewFixedExtractor ==
    [filesystem_type |-> "Unknown",
     offset_to_metadata |-> << >>,
     mft_cache |-> << >>, inode_cache |-> << >>, fat_cache |-> << >>,
     block_size |-> 4096,
     scanned |-> FALSE,
     reads |-> << >>]

\* self.reader.size, set when the reader was opened
ReaderSize == media.size

\* range(offset - radius*block_size, offset + radius*block_size, block_size),
\* kept when >= 0: the keys one decoded structure is filed under
NearbyBlocks(offset, radius, block_size) ==
    {offset - radius * block_size + k * block_size : k \in 0..(2 * radius - 1)}
        \cap Nat

\* for block_offset in range(...): offset_to_metadata[block_offset] = timestamps
FileUnder(index, keys, timestamps) ==
    [k \in keys |-> timestamps] @@ index

Logged(x, offset) == [x EXCEPT !.reads = Append(@, offset)]

\* `if timestamps:` of the three pre-scans: the structure goes to its cache
\* under its own offset and to the index under `keys`
Indexed(x, cache, structure_offset, keys, timestamps) ==
    IF timestamps = None THEN x
    ELSE [x EXCEPT ![cache] = (structure_offset :> timestamps) @@ @,
                   !.offset_to_metadata = FileUnder(@, keys, timestamps)]

\* `if timestamps:` of the generic scan: the index only
Filed(x, keys, timestamps) ==
    IF timestamps = None THEN x
    ELSE [x EXCEPT !.offset_to_metadata = FileUnder(@, keys, timestamps)]

\* the body of the entry loop of _scan_ntfs_mft: try ... except: continue
ScanMftEntry(x, offset, entry_data) ==
    IF entry_data = Raise THEN x
    ELSE IF ~Is(Slice(entry_data, 0, 4), SigFILE) THEN x
    ELSE Indexed(x, "mft_cache", offset,
                 NearbyBlocks(offset, 10, x.block_size),
                 ParseNtfsMftEntry(entry_data))

\* the loop of _scan_ntfs_mft from entry `entry_num`
RECURSIVE ScanMftEntries(_, _, _, _)
ScanMftEntries(x, mft_offset, entry_num, max_entries) ==
    IF entry_num >= max_entries THEN x
    ELSE ScanMftEntries(
             ScanMftEntry(Logged(x, mft_offset + entry_num * 1024),
                          mft_offset + entry_num * 1024,
                          ReaderRead(mft_offset + entry_num * 1024, 1024)),
             mft_offset, entry_num + 1, max_entries)

\* _scan_ntfs_mft: any exception outside the entry loop ends the scan
ScanNtfsMft(x) ==
    LET FromBpb(x1, bytes_per_sector, sectors_per_cluster, mft_cluster) ==
            IF -1 \in {bytes_per_sector, sectors_per_cluster, mft_cluster}
            THEN x1
            ELSE ScanMftEntries(
                     x1, mft_cluster * (bytes_per_sector * sectors_per_cluster),
                     0, Min(10000, ReaderSize \div 1024))
        FromBoot(x1, boot_sector) ==
            IF boot_sector = Raise THEN x1
            ELSE FromBpb(x1, U16At(boot_sector, 11),
                         IF boot_sector.len > 13 THEN Byte(boot_sector, 13)
                         ELSE -1,
                         U64At(boot_sector, 48))
    IN  FromBoot(Logged(x, 0), ReaderRead(0, 512))

\* the body of the inode loop of _scan_ext4_inodes: try ... except: continue
ScanInode(x, inode_offset, inode_data) ==
    IF inode_data = Raise THEN x
    ELSE Indexed(x, "inode_cache", inode_offset,
                 NearbyBlocks(inode_offset, 5, x.block_size),
                 ParseExt4Inode(inode_data))

\* the inode loop of _scan_ext4_inodes for one group, from slot `inode_num`
RECURSIVE ScanInodeSlots(_, _, _, _, _)
ScanInodeSlots(x, inode_table_offset, inode_size, inode_num, slots) ==
    IF inode_num >= slots THEN x
    ELSE ScanInodeSlots(
             ScanInode(Logged(x, inode_table_offset + inode_num * inode_size),
                       inode_table_offset + inode_num * inode_size,
                       ReaderRead(inode_table_offset + inode_num * inode_size,
                                  inode_size)),
             inode_table_offset, inode_size, inode_num + 1, slots)

\* the group loop of _scan_ext4_inodes from group `group`.  The descriptor is
\* read and unpacked outside the inner try: a failure there raises out of
\* the loop to the handler of the whole scan.
RECURSIVE ScanInodeGroups(_, _, _, _, _, _)
ScanInodeGroups(x, block_size, inode_size, inodes_per_group, group, max_groups) ==
    LET FromTable(x1, inode_table_block) ==
            IF inode_table_block = -1 THEN x1
            ELSE ScanInodeGroups(
                     ScanInodeSlots(x1, inode_table_block * block_size,
                                    inode_size, 0, Min(inodes_per_group, 1000)),
                     block_size, inode_size, inodes_per_group, group + 1,
                     max_groups)
        FromDescriptor(x1, bgd) ==
            IF bgd = Raise THEN x1
            ELSE FromTable(x1, U32At(bgd, 8))
    IN  IF group >= max_groups THEN x
        ELSE FromDescriptor(Logged(x, block_size * 2 + group * 32),
                            ReaderRead(block_size * 2 + group * 32, 32))

\* 1024 << s_log_block_size (images keep the shift small)
ShiftLeft1024(n) == 1024 * 2 ^ Min(n, 20)

\* _scan_ext4_inodes
ScanExt4Inodes(x) ==
    LET FromFields(x1, s_inodes_count, s_blocks_count, s_log_block_size,
                   inode_size, s_inodes_per_group) ==
            IF -1 \in {s_inodes_count, s_blocks_count, s_log_block_size,
                       inode_size, s_inodes_per_group}
            THEN x1
            ELSE ScanInodeGroups(x1, ShiftLeft1024(s_log_block_size),
                                 IF inode_size = 0 THEN 128 ELSE inode_size,
                                 s_inodes_per_group, 0,
                                 Min(10, s_blocks_count \div 8192))
        FromSuperblock(x1, superblock) ==
            IF superblock = Raise THEN x1
            ELSE FromFields(x1, U32At(superblock, 0), U32At(superblock, 4),
                            U32At(superblock, 24), U16At(superblock, 88),
                            U32At(superblock, 40))
    IN  FromSuperblock(Logged(x, 1024), ReaderRead(1024, 1024))

\* sector[i:i+32] for slot i \div 32 of a directory sector
FatSlot(sector, slot) == Slice(sector, slot * 32, slot * 32 + 32)

\* the slots of a sector whose entry the slot loop stores: the loop reaches
\* a slot when its slice is not empty (entry[0] of an empty slice raises
\* IndexError, which ends the sector), passes over a name byte of 0x00, 0xE5
\* or 0x20, and stores what _parse_fat32_entry decodes
StoredFatSlots(sector) ==
    {slot \in 0..15 :
        /\ slot * 32 < sector.len
        /\ Byte(FatSlot(sector, slot), 0) \notin {0, 229, 32}
        /\ ParseFat32Entry(FatSlot(sector, slot)) # None}

\* the slot loop of _scan_fat32_directory over one sector: every stored slot
\* goes to fat_cache under its own offset; all of them are filed under the
\* same keys, so the index keeps the last one
ScanFatSlots(x, offset, sector) ==
    LET Store(stored) ==
            IF stored = {} THEN x
            ELSE [x EXCEPT
                    !.fat_cache =
                        [o \in {offset + slot * 32 : slot \in stored} |->
                            ParseFat32Entry(FatSlot(sector, (o - offset) \div 32))]
                        @@ @,
                    !.offset_to_metadata =
                        FileUnder(@, NearbyBlocks(offset, 2, x.block_size),
                                  ParseFat32Entry(FatSlot(sector,
                                      CHOOSE last \in stored :
                                          \A slot \in stored : slot <= last)))]
    IN  Store(StoredFatSlots(sector))

\* the body of the sector loop: try ... except: offset += 512; continue
ScanFatSector(x, offset, sector) ==
    IF sector = Raise THEN x
    ELSE ScanFatSlots(x, offset, sector)

\* the sector loop of _scan_fat32_directory from `offset`
RECURSIVE ScanFatSectors(_, _, _)
ScanFatSectors(x, offset, limit) ==
    IF ~(offset < limit) THEN x
    ELSE ScanFatSectors(
             ScanFatSector(Logged(x, offset), offset, ReaderRead(offset, 512)),
             offset + 512, limit)

\* a sector loop that would run one sector beyond the scanned range
ScanFat32DirectoryPastEnd(x) ==
    LET FromDataOffset(x1, data_offset) ==
            ScanFatSectors(x1, data_offset,
                           data_offset + Min(ReaderSize - data_offset,
                                             50 * 1024 * 1024)
                               + 512)
        FromBpb(x1, bytes_per_sector, sectors_per_cluster, reserved_sectors,
                num_fats, sectors_per_fat, root_cluster) ==
            IF -1 \in {bytes_per_sector, sectors_per_cluster, reserved_sectors,
                       num_fats, sectors_per_fat, root_cluster}
            THEN x1
            ELSE FromDataOffset(
                     x1, reserved_sectors * bytes_per_sector
                         + num_fats * sectors_per_fat * bytes_per_sector)
        FromBoot(x1, boot_sector) ==
            IF boot_sector = Raise THEN x1
            ELSE FromBpb(x1, U16At(boot_sector, 11),
                         IF boot_sector.len > 13 THEN Byte(boot_sector, 13)
                         ELSE -1,
                         U16At(boot_sector, 14),
                         IF boot_sector.len > 16 THEN Byte(boot_sector, 16)
                         ELSE -1,
                         U32At(boot_sector, 36), U32At(boot_sector, 44))
    IN  FromBoot(Logged(x, 0), ReaderRead(0, 512))

\* _scan_fat32_directory
ScanFat32Directory(x) ==
    LET FromDataOffset(x1, data_offset) ==
            ScanFatSectors(x1, data_offset,
                           data_offset + Min(ReaderSize - data_offset,
                                             50 * 1024 * 1024))
        FromBpb(x1, bytes_per_sector, sectors_per_cluster, reserved_sectors,
                num_fats, sectors_per_fat, root_cluster) ==
            IF -1 \in {bytes_per_sector, sectors_per_cluster, reserved_sectors,
                       num_fats, sectors_per_fat, root_cluster}
            THEN x1
            ELSE FromDataOffset(
                     x1, reserved_sectors * bytes_per_sector
                         + num_fats * sectors_per_fat * bytes_per_sector)
        FromBoot(x1, boot_sector) ==
            IF boot_sector = Raise THEN x1
            ELSE FromBpb(x1, U16At(boot_sector, 11),
                         IF boot_sector.len > 13 THEN Byte(boot_sector, 13)
                         ELSE -1,
                         U16At(boot_sector, 14),
                         IF boot_sector.len > 16 THEN Byte(boot_sector, 16)
                         ELSE -1,
                         U32At(boot_sector, 36), U32At(boot_sector, 44))
    IN  FromBoot(Logged(x, 0), ReaderRead(0, 512))

\* the body of the loop of _generic_scan: the chunk is tried as an MFT entry
\* and then, whatever came of that, as an ext4 inode
GenericScanChunk(x, offset, data) ==
    IF data = Raise THEN x
    ELSE Filed(Filed(x, NearbyBlocks(offset, 5, x.block_size),
                     IF Is(Slice(data, 0, 4), SigFILE)
                     THEN ParseNtfsMftEntry(data) ELSE None),
               NearbyBlocks(offset, 5, x.block_size),
               ParseExt4Inode(Slice(data, 0, 256)))

\* the loop of _generic_scan from `offset`: every 1024 bytes
RECURSIVE GenericScanFrom(_, _)
GenericScanFrom(x, offset) ==
    IF ~(offset < Min(ReaderSize, 100 * 1024 * 1024)) THEN x
    ELSE GenericScanFrom(
             GenericScanChunk(Logged(x, offset), offset,
                              ReaderRead(offset, 1024)),
             offset + 1024)

\* _generic_scan
GenericScan(x) == GenericScanFrom(x, 0)

\* a superblock test that would look for the magic two bytes further on
CheckExt4Shifted(superblock) ==
    /\ superblock # Raise
    /\ superblock.len >= 60
    /\ U16At(superblock, 58) = 61267

\* _check_ext4 on what the read of the superblock gave
CheckExt4(superblock) ==
    /\ superblock # Raise
    /\ superblock.len >= 58
    /\ U16At(superblock, 56) = 61267

\* the third test of detect_and_scan_filesystem
LooksLikeFat32(boot_sector) ==
    \/ Contains(boot_sector, SigFAT32)
    \/ Is(Slice(boot_sector, 54, 59), SigFAT32)
    \/ Is(Slice(boot_sector, 82, 90), SigFAT32Padded)

\* detect_and_scan_filesystem: a boot sector that cannot be read leaves
\* `scanned` as it was
DetectAndScanFilesystem(x) ==
    LET Scanned(x2) == [x2 EXCEPT !.scanned = TRUE]
        Detect(x1, boot_sector) ==
            IF boot_sector = Raise
            THEN [x1 EXCEPT !.filesystem_type = "Unknown"]
            ELSE IF Contains(boot_sector, SigNTFS)
            THEN Scanned(ScanNtfsMft([x1 EXCEPT !.filesystem_type = "NTFS"]))
            ELSE IF CheckExt4(ReaderRead(1024, 1024))
            THEN Scanned(ScanExt4Inodes(
                     [Logged(x1, 1024) EXCEPT !.filesystem_type = "ext4"]))
            ELSE IF LooksLikeFat32(boot_sector)
            THEN Scanned(ScanFat32Directory(
                     [Logged(x1, 1024) EXCEPT !.filesystem_type = "FAT32"]))
            ELSE Scanned(GenericScan(Logged(x1, 1024)))
    IN  Detect([x EXCEPT !.reads = <<0>>], ReaderRead(0, 512))

\* the lookup part of get_metadata_for_offset, on an index: the exact block,
\* else the first hit of range(block_offset - 5*block_size,
\* block_offset + 5*block_size, block_size), which is the lowest
LookupIndex(index, block_size, offset) ==
    LET First(nearby) ==
            IF nearby = {} THEN None
            ELSE index[CHOOSE n \in nearby : \A m \in nearby : n <= m]
        At(block_offset) ==
            IF block_offset \in DOMAIN index THEN index[block_offset]
            ELSE First({n \in NearbyBlocks(block_offset, 5, block_size) :
                           n \in DOMAIN index})
    IN  At((offset \div block_size) * block_size)

\* get_metadata_for_offset: <<the extractor afterwards, the value returned>>
GetMetadataForOffset(x, offset) ==
    LET Lookup(x1) ==
            <<x1, LookupIndex(x1.offset_to_metadata, x1.block_size, offset)>>
    IN  Lookup(IF x.scanned THEN x ELSE DetectAndScanFilesystem(x))

\* GenericMetadataExtractor.__init__
NewGenericExtractor == [extractor |-> NewFixedExtractor, detected_fs |-> FALSE]

\* GenericMetadataExtractor.detect_filesystem: the wrapper afterwards
DetectFilesystem(g) ==
    IF g.detected_fs THEN g
    ELSE [extractor |-> DetectAndScanFilesystem(g.extractor),
          detected_fs |-> TRUE]

\* GenericMetadataExtractor.extract_block_metadata:
\* <<the wrapper afterwards, the dict returned>>
ExtractBlockMetadata(g, offset, size) ==
    LET Dict(r) ==
            <<[g EXCEPT !.extractor = r[1]],
              [filesystem |-> r[1].filesystem_type, timestamps |-> r[2],
               inode_info |-> None]>>
    IN  Dict(GetMetadataForOffset(g.extractor, offset))

-----------------------------------------------------------------------------
(* forensic_gui_analyzer.py: the block classifier (_extract_metadata).      *)
(* Entropy is kept in units of 1/1024 bit, a ratio as <<numerator,          *)
(* denominator>>.                                                           *)

\* largest e with 2^e <= c (c >= 1)
RECURSIVE FloorLog2(_)
FloorLog2(c) == IF c < 2 THEN 0 ELSE 1 + FloorLog2(c \div 2)

\* the next k binary digits of log2(x / 2^14) for x in [2^14, 2^15), by
\* repeated squaring, in units of 2^-10
RECURSIVE Log2Digits(_, _)
Log2Digits(x, k) ==
    LET Digit(y) ==
            IF y >= 32768 THEN 2 ^ (k - 1) + Log2Digits(y \div 2, k - 1)
            ELSE Log2Digits(y, k - 1)
    IN  IF k = 0 THEN 0 ELSE Digit((x * x) \div 16384)

\* math.log2(c) in units of 1/1024 bit, rounded down (c in 1..512)
Log2Scaled(c) ==
    LET Scaled(e) == e * 1024 + Log2Digits((c * 16384) \div (2 ^ e), 10)
    IN  Scaled(FloorLog2(c))

\* the sum of weight[v] over the v of S within lo..hi (S a set of bytes)
RECURSIVE SumOver(_, _, _, _)
SumOver(S, weight, lo, hi) ==
    IF \A v \in S : v < lo \/ v > hi THEN 0
    ELSE IF lo = hi THEN weight[lo]
    ELSE SumOver(S, weight, lo, (lo + hi) \div 2)
         + SumOver(S, weight, (lo + hi) \div 2 + 1, hi)

\* _calculate_entropy: -sum p*log2(p) over the byte values that occur, which
\* is sum count*(log2(n) - log2(count)) / n
CalculateEntropy(data) ==
    LET Entropy(n, values) ==
            SumOver(values,
                    [v \in values |->
                        LET Term(count) ==
                                count * (Log2Scaled(n) - Log2Scaled(count))
                        IN  Term(Cardinality({i \in 0..(n - 1) :
                                                 Byte(data, i) = v}))],
                    0, 255)
            \div n
    IN  IF data.len = 0 THEN 0
        ELSE Entropy(data.len, {Byte(data, i) : i \in 0..(data.len - 1)})

\* the None of `return None` in _detect_file_magic
NoMagic == "None"

\* _detect_file_magic: the first signature of the table that data starts with
DetectFileMagic(data) ==
    IF data.len < 4 THEN NoMagic
    ELSE IF StartsWith(data, SigPNG) THEN "PNG"
    ELSE IF StartsWith(data, <<255, 216, 255>>) THEN "JPEG"
    ELSE IF StartsWith(data, <<71, 73, 70, 56>>) THEN "GIF"
    ELSE IF StartsWith(data, <<80, 75, 3, 4>>) THEN "ZIP"
    ELSE IF StartsWith(data, <<37, 80, 68, 70>>) THEN "PDF"
    ELSE IF StartsWith(data, <<77, 90>>) THEN "EXE"
    ELSE IF StartsWith(data, <<127, 69, 76, 70>>) THEN "ELF"
    ELSE IF StartsWith(data, <<82, 73, 70, 70>>) THEN "RIFF"
    ELSE NoMagic

\* _printable_ratio; 0 for no data
PrintableRatio(data) ==
    IF data.len = 0 THEN <<0, 1>>
    ELSE <<Cardinality({i \in 0..(data.len - 1) :
                           Byte(data, i) >= 32 /\ Byte(data, i) <= 126}),
           data.len>>

\* _extract_metadata
ExtractMetadata(data) ==
    [is_zero |-> \A i \in 0..(Min(512, data.len) - 1) : Byte(data, i) = 0,
     entropy |-> CalculateEntropy(Slice(data, 0, 512)),
     has_magic |-> DetectFileMagic(data),
     printable_ratio |-> PrintableRatio(Slice(data, 0, 512))]

-----------------------------------------------------------------------------
(* forensic_gui_analyzer.py: DiskAnalyzer *)

\* what `from metadata_extractor import ...` can find in metadata_extractor.py
MetadataExtractorNames ==
    {"struct", "os", "datetime", "timedelta", "defaultdict",
     "FixedMetadataExtractor", "GenericMetadataExtractor"}

\* the try/except ImportError around
\* `from metadata_extractor import GenericMetadataExtractor, MACBTimestamps`
METADATA_EXTRACTOR_AVAILABLE ==
    {"GenericMetadataExtractor", "MACBTimestamps"} \subseteq MetadataExtractorNames

\* DiskAnalyzer.__init__
NewDiskAnalyzer(block_size) ==
    [block_size |-> block_size,
     blocks |-> << >>,
     correlations |-> << >>,
     reader |-> None,
     total_blocks |-> 0,
     metadata_extractor |-> None,
     filesystem_type |-> "Unknown"]

\* DiskAnalyzer.load_source once reader.open() has succeeded
LoadSource(a) ==
    LET Opened(a1) ==
            IF METADATA_EXTRACTOR_AVAILABLE
            THEN LET Detected(g) ==
                         [a1 EXCEPT !.metadata_extractor = g,
                                    !.filesystem_type =
                                        g.extractor.filesystem_type]
                 IN  Detected(DetectFilesystem(NewGenericExtractor))
            ELSE a1
    IN  Opened([a EXCEPT !.reader = [kind |-> "reader", size |-> media.size],
                         !.total_blocks =
                             (media.size + a.block_size - 1) \div a.block_size])

\* a progress_callback(progress, message) call as the message it leaves in
\* the sink; progress is the fraction <<numerator, denominator>> of 100
ProgressEvent(tag, num, den, message) ==
    [type |-> tag, progress |-> <<num, den>>, message |-> message]

\* a new call of analyze_blocks / correlate_blocks on analyzer `self`: the
\* locals of the call, and as observations the block ids whose iteration
\* ended in the exception handler (skipped) or stored a Block (stored)
NewFrame(op, self, tag) ==
    [op |-> op, self |-> self, callback |-> tag, state |-> "loop",
     block_id |-> 0, blocks_analyzed |-> 0, result |-> -1,
     skipped |-> {}, stored |-> {}]

\* sample_size of analyze_blocks
SampleSize == 512

\* a BlockData whose head sample would be the whole block
NewBlockWholeHead(block_id, offset, block_data) ==
    [block_id |-> block_id, offset |-> offset, size |-> block_data.len,
     file_path |-> None,
     head_data |-> block_data,
     tail_data |-> IF block_data.len > SampleSize
                   THEN LastN(block_data, SampleSize) ELSE block_data,
     metadata |-> ExtractMetadata(block_data),
     mtime |-> None, ctime |-> None, atime |-> None, btime |-> None]

\* BlockData(...) as analyze_blocks builds it (real_timestamps is None)
NewBlock(block_id, offset, block_data) ==
    [block_id |-> block_id, offset |-> offset, size |-> block_data.len,
     file_path |-> None,
     head_data |-> Slice(block_data, 0, SampleSize),
     tail_data |-> IF block_data.len > SampleSize
                   THEN LastN(block_data, SampleSize) ELSE block_data,
     metadata |-> ExtractMetadata(block_data),
     mtime |-> None, ctime |-> None, atime |-> None, btime |-> None]

\* an exception handler that would end the loop instead of going on
ExceptBreak(a, f) ==
    <<a, [f EXCEPT !.state = "break", !.skipped = @ \cup {f.block_id}], << >> >>

\* `except Exception: ... continue` of analyze_blocks: on to the next block
ExceptContinue(a, f) ==
    <<a, [f EXCEPT !.block_id = @ + 1, !.skipped = @ \cup {f.block_id}], << >> >>

\* One iteration of the loop of analyze_blocks, for block f.block_id of
\* analyzer a: <<analyzer afterwards, frame afterwards, events emitted>>.
\* A failed read, and the AttributeError of `real_timestamps.mtime` on the
\* dict the extractor returns, go to `except: continue`.
AnalyzeIteration(a, f) ==
    LET Store(a1, block, blocks_analyzed) ==
            <<[a1 EXCEPT !.blocks = (f.block_id :> block) @@ @],
              [f EXCEPT !.blocks_analyzed = blocks_analyzed,
                        !.block_id = @ + 1,
                        !.stored = @ \cup {f.block_id},
                        !.state = IF blocks_analyzed >= 1000
                                  THEN "break" ELSE "loop"],
              IF blocks_analyzed % 100 = 0
              THEN <<ProgressEvent(f.callback, blocks_analyzed * 100,
                                   a.total_blocks,
                                   <<"Analyzed", blocks_analyzed,
                                     a.total_blocks>>)>>
              ELSE << >> >>
        Looked(block_data, looked) ==
            IF looked[2].timestamps # None
            THEN ExceptContinue([a EXCEPT !.metadata_extractor = looked[1]], f)
            ELSE Store([a EXCEPT !.metadata_extractor = looked[1]],
                       NewBlock(f.block_id, f.block_id * a.block_size,
                                block_data),
                       f.blocks_analyzed + 1)
        Read(block_data) ==
            IF block_data = Raise THEN ExceptContinue(a, f)
            ELSE IF block_data.len = 0
            THEN <<a, [f EXCEPT !.state = "break"], << >> >>
            ELSE IF a.metadata_extractor = None
            THEN Store(a, NewBlock(f.block_id, f.block_id * a.block_size,
                                   block_data),
                       f.blocks_analyzed + 1)
            ELSE Looked(block_data,
                        ExtractBlockMetadata(a.metadata_extractor,
                                             f.block_id * a.block_size,
                                             a.block_size))
    IN  Read(ReaderRead(f.block_id * a.block_size, a.block_size))

\* a loop that would go on to the end of the range after a break
LoopDoneAtRangeEnd(a, f) == f.block_id >= a.total_blocks

\* the loop of analyze_blocks is over (range exhausted, or break)
LoopDone(a, f) == f.state = "break" \/ f.block_id >= a.total_blocks

\* sorted(self.blocks.keys()): position k holds the key with k - 1 smaller keys
SortedSeq(S) ==
    [k \in 1..Cardinality(S) |->
        CHOOSE x \in S : Cardinality({y \in S : y < x}) = k - 1]

\* tail_bytes = block1.tail_data[:128]; head_bytes = block2.head_data[:128]
TailBytes(block1) == Slice(block1.tail_data, 0, 128)
HeadBytes(block2) == Slice(block2.head_data, 0, 128)

\* sum(1 for a, b in zip(tail_bytes, head_bytes) if a == b)
MatchingBytes(tail_bytes, head_bytes) ==
    Cardinality({i \in 0..(Min(tail_bytes.len, head_bytes.len) - 1) :
                    Byte(tail_bytes, i) = Byte(head_bytes, i)})

\* min(len(tail_bytes), len(head_bytes)), the denominator of byte_similarity
CompareLength(block1, block2) ==
    Min(TailBytes(block1).len, HeadBytes(block2).len)

\* abs(entropy1 - entropy2) in units of 1/1024 bit
EntropyDiff(block1, block2) ==
    IF block1.metadata.entropy >= block2.metadata.entropy
    THEN block1.metadata.entropy - block2.metadata.entropy
    ELSE block2.metadata.entropy - block1.metadata.entropy

\* a combined score that would weigh the entropy term 0.5 instead of 0.2
CombinedScoreHeavyEntropy(d, matching_bytes, pattern, similar) ==
    [kind |-> "score",
     num |-> 50 * matching_bytes * 8192 + pattern * 8192 * d + 50 * similar * d,
     den |-> 100 * 8192 * d]

\* the combined score of _calculate_correlation over the denominator
\* 100 * 8192 * d: matching_bytes of d compared bytes are equal, `pattern` is
\* pattern_match * 0.3 in hundredths, `similar` is entropy_similarity in
\* units of 1/8192
CombinedScore(d, matching_bytes, pattern, similar) ==
    [kind |-> "score",
     num |-> 50 * matching_bytes * 8192 + pattern * 8192 * d + 20 * similar * d,
     den |-> 100 * 8192 * d]

\* _calculate_correlation as a fraction num/den whose denominator is
\* 100 (the weights in hundredths) * 8192 (8 bits in 1/1024) * compare length:
\* byte_similarity*0.5 + pattern_match*0.3 + entropy_similarity*0.2 with
\* pattern_match = 0.3 when the magics are equal (0.3*0.3 = 9 hundredths)
\* and entropy_similarity = max(0, 1 - entropy_diff/8).
\* A compare length of 0 is ZeroDivisionError: the value Raise.
CalculateCorrelation(block1, block2) ==
    LET Score(d, matching_bytes, pattern, similar) ==
            CombinedScore(d, matching_bytes, pattern, similar)
    IN  IF CompareLength(block1, block2) = 0 THEN Raise
        ELSE Score(CompareLength(block1, block2),
                   MatchingBytes(TailBytes(block1), HeadBytes(block2)),
                   IF block1.metadata.has_magic = block2.metadata.has_magic
                   THEN 9 ELSE 0,
                   Max(0, 8192 - EntropyDiff(block1, block2)))

\* a threshold of 0.5
AboveThresholdHalf(score) == score.num * 10 > 5 * score.den

\* score > 0.7
AboveThreshold(score) == score.num * 10 > 7 * score.den

\* a window of the next 50 positions instead of 49
WindowEndFifty(i, n) == Min(i + 51, n)

\* block_ids[i+1:i+50] for the 0-based position i of n ids ends before the
\* 0-based position WindowEnd
WindowEnd(i, n) == Min(i + 50, n)

\* a result record that would list the later block first
NewCorrelationSwapped(block1_id, block2_id, score) ==
    [block1_id |-> block2_id, block2_id |-> block1_id,
     correlation_score |-> score,
     sequence_order |-> <<block1_id, block2_id>>,
     reconstruction_confidence |-> score]

\* CorrelationResult(...) for a pair and its score
NewCorrelation(block1_id, block2_id, score) ==
    [block1_id |-> block1_id, block2_id |-> block2_id,
     correlation_score |-> score,
     sequence_order |-> <<block1_id, block2_id>>,
     reconstruction_confidence |-> score]

\* the CorrelationResults of the inner loop for position i (0-based), in order
RowResults(blocks, block_ids, i) ==
    SelectSeq([k \in 1..Max(0, WindowEnd(i, Len(block_ids)) - (i + 1)) |->
                  NewCorrelation(block_ids[i + 1], block_ids[i + 1 + k],
                                 CalculateCorrelation(
                                     blocks[block_ids[i + 1]],
                                     blocks[block_ids[i + 1 + k]]))],
              LAMBDA c : AboveThreshold(c.correlation_score))

\* the results of the rows at positions lo..hi, in the order of the loop
RECURSIVE RowsResults(_, _, _, _)
RowsResults(blocks, block_ids, lo, hi) ==
    IF lo > hi THEN << >>
    ELSE IF lo = hi THEN RowResults(blocks, block_ids, lo)
    ELSE RowsResults(blocks, block_ids, lo, (lo + hi) \div 2)
         \o RowsResults(blocks, block_ids, (lo + hi) \div 2 + 1, hi)

\* the progress_callback calls of the outer loop: at every position i with
\* i % 50 == 0
CorrelateEvents(n, tag) ==
    [k \in 1..((n + 49) \div 50) |->
        ProgressEvent(tag, (k - 1) * 50 * 100, n,
                      <<"Correlated", (k - 1) * 50, n>>)]

\* correlate_blocks: <<analyzer afterwards, count returned, events emitted>>
CorrelateBlocks(a, tag) ==
    LET Done(found, n) ==
            <<[a EXCEPT !.correlations = @ \o found], Len(found),
              CorrelateEvents(n, tag)>>
        Run(block_ids) ==
            Done(RowsResults(a.blocks, block_ids, 0, Len(block_ids) - 1),
                 Len(block_ids))
    IN  Run(SortedSeq(DOMAIN a.blocks))

-----------------------------------------------------------------------------
(* The environment: read errors of the medium come and go *)

MediaChange ==
    /\ \E bad \in SUBSET BadCandidates(media.image) :
          /\ bad # media.bad
          /\ media' = [media EXCEPT !.bad = bad]
    /\ UNCHANGED <<analyzers, frames, progress_queue, gui, extractor, probe>>

-----------------------------------------------------------------------------
(* Calls of the DiskAnalyzer API.  A frame is one call; frame t of a worker *)
(* thread is the call that thread makes.                                    *)

\* frame t is inside its call: in the loop, or past it and before the return
Running(t) == t \in DOMAIN frames /\ frames[t].state \in {"loop", "break"}

\* one iteration of analyze_blocks in frame t
AnalyzeStep(t) ==
    LET Apply(step) ==
            /\ analyzers' = [analyzers EXCEPT ![frames[t].self] = step[1]]
            /\ frames' = [frames EXCEPT ![t] = step[2]]
            /\ progress_queue' = progress_queue \o step[3]
    IN  /\ Running(t)
        /\ frames[t].op = "analyze_blocks"
        /\ ~LoopDone(analyzers[frames[t].self], frames[t])
        /\ Apply(AnalyzeIteration(analyzers[frames[t].self], frames[t]))
        /\ UNCHANGED <<media, gui, extractor, probe>>

\* analyze_blocks after its loop: the final progress_callback(100, ...) and
\* `return blocks_analyzed`
AnalyzeReturn(t) ==
    /\ Running(t)
    /\ frames[t].op = "analyze_blocks"
    /\ LoopDone(analyzers[frames[t].self], frames[t])
    /\ progress_queue' =
          Append(progress_queue,
                 ProgressEvent(frames[t].callback, 100, 1,
                               <<"Analysis complete", frames[t].blocks_analyzed>>))
    /\ frames' = [frames EXCEPT ![t].state = "returned",
                                ![t].result = frames[t].blocks_analyzed]
    /\ UNCHANGED <<media, analyzers, gui, extractor, probe>>

\* correlate_blocks in frame t, start to return
CorrelateRun(t) ==
    LET Apply(run) ==
            /\ analyzers' = [analyzers EXCEPT ![frames[t].self] = run[1]]
            /\ frames' = [frames EXCEPT ![t].state = "returned",
                                        ![t].result = run[2]]
            /\ progress_queue' = progress_queue \o run[3]
    IN  /\ Running(t)
        /\ frames[t].op = "correlate_blocks"
        /\ Apply(CorrelateBlocks(analyzers[frames[t].self], frames[t].callback))
        /\ UNCHANGED <<media, gui, extractor, probe>>

-----------------------------------------------------------------------------
(* Spec: one DiskAnalyzer, loaded from an image, and one caller that runs   *)
(* analyze_blocks and correlate_blocks one after the other.                 *)

\* Passes (calls of either operation) the caller makes
MaxPasses == 3

\* <<image, block_size passed to DiskAnalyzer()>>
Sessions ==
    {<<"ntfs", 4096>>, <<"ext4", 4096>>, <<"fat32", 4096>>, <<"raw", 4096>>,
     <<"zero", 4096>>, <<"wide", 2>>}

Init ==
    /\ \E s \in Sessions :
          /\ media = NewMedia(s[1])
          /\ analyzers = <<LoadSource(NewDiskAnalyzer(s[2]))>>
    /\ frames = << >>
    /\ progress_queue = << >>
    /\ gui = None
    /\ extractor = None
    /\ probe = [passes |-> 0]

\* the caller calls analyze_blocks(progress_callback) with a fresh sink
CallAnalyzeBlocks ==
    /\ ~Running(1)
    /\ probe.passes < MaxPasses
    /\ frames' = <<NewFrame("analyze_blocks", 1, "progress")>>
    /\ progress_queue' = << >>
    /\ probe' = [probe EXCEPT !.passes = @ + 1]
    /\ UNCHANGED <<media, analyzers, gui, extractor>>

\* the caller calls correlate_blocks(progress_callback) with a fresh sink
CallCorrelateBlocks ==
    /\ ~Running(1)
    /\ probe.passes < MaxPasses
    /\ frames' = <<NewFrame("correlate_blocks", 1, "progress")>>
    /\ progress_queue' = << >>
    /\ probe' = [probe EXCEPT !.passes = @ + 1]
    /\ UNCHANGED <<media, analyzers, gui, extractor>>

Next ==
    \/ CallAnalyzeBlocks
    \/ AnalyzeStep(1)
    \/ AnalyzeReturn(1)
    \/ CallCorrelateBlocks
    \/ CorrelateRun(1)
    \/ MediaChange

Spec == Init /\ [][Next]_vars

-----------------------------------------------------------------------------
(* SpecLong: one DiskAnalyzer with 1-byte blocks over the image "long", and *)
(* a caller that runs analyze_blocks, while read errors come and go.        *)

InitLong ==
    /\ media = NewMedia("long")
    /\ analyzers = <<LoadSource(NewDiskAnalyzer(1))>>
    /\ frames = << >>
    /\ progress_queue = << >>
    /\ gui = None
    /\ extractor = None
    /\ probe = [passes |-> 0]

NextLong ==
    \/ CallAnalyzeBlocks
    \/ AnalyzeStep(1)
    \/ AnalyzeReturn(1)
    \/ MediaChange

SpecLong == InitLong /\ [][NextLong]_vars

-----------------------------------------------------------------------------
(* SpecMeta: one GenericMetadataExtractor over an image, and a caller that  *)
(* calls detect_filesystem and extract_block_metadata in any order while    *)
(* read errors come and go.  probe holds the last call, what it returned    *)
(* and how many times detect_and_scan_filesystem has run.                   *)

\* Runs of detect_and_scan_filesystem a session is followed through
MaxScans == 3

\* Highest block a lookup asks for
MaxLookupBlock == 16

\* the offsets asked for: one inside each block
LookupOffsets == {b * 4096 + 7 : b \in 0..MaxLookupBlock}

InitMeta ==
    /\ \E image \in ImageNames : media = NewMedia(image)
    /\ extractor = NewGenericExtractor
    /\ probe = [op |-> "new", scans |-> 0, offset |-> 0, returned |-> None]
    /\ analyzers = << >>
    /\ frames = << >>
    /\ progress_queue = << >>
    /\ gui = None

\* the caller calls detect_filesystem()
CallDetectFilesystem ==
    /\ extractor.detected_fs \/ probe.scans < MaxScans
    /\ extractor' = DetectFilesystem(extractor)
    /\ probe' = [op |-> "detect_filesystem",
                 scans |-> IF extractor.detected_fs THEN probe.scans
                           ELSE probe.scans + 1,
                 offset |-> 0,
                 returned |-> [kind |-> "str",
                               value |-> extractor'.extractor.filesystem_type]]
    /\ UNCHANGED <<media, analyzers, frames, progress_queue, gui>>

\* the caller calls extract_block_metadata(offset, block_size)
CallExtractBlockMetadata ==
    /\ extractor.extractor.scanned \/ probe.scans < MaxScans
    /\ \E offset \in LookupOffsets :
          LET Apply(r) ==
                  /\ extractor' = r[1]
                  /\ probe' = [op |-> "extract_block_metadata",
                               scans |-> IF extractor.extractor.scanned
                                         THEN probe.scans ELSE probe.scans + 1,
                               offset |-> offset,
                               returned |-> r[2]]
          IN  Apply(ExtractBlockMetadata(extractor, offset, 4096))
    /\ UNCHANGED <<media, analyzers, frames, progress_queue, gui>>

NextMeta ==
    \/ CallDetectFilesystem
    \/ CallExtractBlockMetadata
    \/ MediaChange

SpecMeta == InitMeta /\ [][NextMeta]_vars

-----------------------------------------------------------------------------
(* SpecGui: the ForensicGUI controller.  The handlers run one at a time on  *)
(* the Tk main loop; every threading.Thread the handlers start is a frame   *)
(* of `frames`, which runs its target step by step between the handlers.    *)
(* self.analyzer is the position of the DiskAnalyzer in `analyzers`, and    *)
(* self.analysis_thread that of the thread in `frames`; 0 is None.          *)

\* DiskAnalyzer objects a session creates
MaxLoads == 2

\* Threads a session starts
MaxThreads == 2

\* the positions of `frames` a thread can have
Threads == 1..MaxThreads

\* Read-only requests (resize, click, export, reconstruct) a session makes
MaxQueries == 1

\* Images the user picks in the file dialog
GuiImages == {"raw", "zero"}

\* ForensicGUI.__init__ and the widgets of _setup_ui that hold state
NewForensicGUI ==
    [analyzer |-> 0, treemap_blocks |-> << >>, selected_block |-> None,
     analysis_thread |-> 0, status |-> <<"Ready">>, progress_var |-> <<0, 1>>,
     dialog |-> None, timestamp_text |-> None, correlation_tree |-> << >>,
     report |-> None]

\* messagebox.showinfo / showwarning / showerror: the dialog shown last
Dialog(kind, text) == [kind |-> kind, text |-> text]

\* load_source when reader.open() raises: the reader is assigned, unopened
LoadFailed(a) == [a EXCEPT !.reader = [kind |-> "reader", size |-> 0]]

\* threading.Thread(target=...) after start(): the target has yet to call
\* self.analyzer.<op>(progress_callback)
NewThread(op, tag) == [NewFrame(op, 0, tag) EXCEPT !.state = "start"]

\* Thread.is_alive(): from start() until the target has returned
IsAlive(t) == frames[t].state # "finished"

\* _get_block_color; entropy is in units of 1/1024 bit
GetBlockColor(block) ==
    IF block.metadata.is_zero THEN "#404040"
    ELSE IF block.metadata.has_magic # NoMagic THEN "#4ec9b0"
    ELSE IF block.metadata.entropy > 7 * 1024 THEN "#f48771"
    ELSE IF block.metadata.entropy > 5 * 1024 THEN "#ce9178"
    ELSE "#007acc"

\* draw_treemap on the GUI g: one TreemapBlock per Block of the analyzer
\* (the geometry of the rectangles is left out)
DrawTreemap(g) ==
    LET Drawn(blocks) ==
            [g EXCEPT !.treemap_blocks =
                          [b \in DOMAIN blocks |->
                              [block_id |-> blocks[b].block_id,
                               color |-> GetBlockColor(blocks[b]),
                               metadata |-> blocks[b].metadata]],
                      !.status = <<"Drew treemap", Cardinality(DOMAIN blocks)>>]
    IN  IF g.analyzer = 0 THEN g
        ELSE IF DOMAIN analyzers[g.analyzer].blocks = {} THEN g
        ELSE Drawn(analyzers[g.analyzer].blocks)

InitGui ==
    /\ \E image \in GuiImages : media = NewMedia(image)
    /\ gui = NewForensicGUI
    /\ analyzers = << >>
    /\ frames = << >>
    /\ progress_queue = << >>
    /\ extractor = None
    /\ probe = [queries |-> 0]

\* load_usb_device with a path chosen: the new DiskAnalyzer is assigned to
\* self.analyzer before load_source runs, which opens the device or raises
LoadUsbDevice ==
    /\ Len(analyzers) < MaxLoads
    /\ \E opens \in BOOLEAN :
          /\ analyzers' =
                Append(analyzers,
                       IF opens THEN LoadSource(NewDiskAnalyzer(4096))
                       ELSE LoadFailed(NewDiskAnalyzer(4096)))
          /\ gui' = [gui EXCEPT
                        !.analyzer = Len(analyzers) + 1,
                        !.status = IF opens THEN <<"Loaded device">> ELSE @,
                        !.dialog =
                            IF opens
                            THEN Dialog("showinfo",
                                        <<"Device loaded successfully",
                                          media.size>>)
                            ELSE Dialog("showerror",
                                        <<"Failed to load device">>)]
    /\ UNCHANGED <<media, frames, progress_queue, extractor, probe>>

\* start_analysis
StartAnalysis ==
    /\ IF gui.analyzer = 0
       THEN /\ gui' = [gui EXCEPT !.dialog =
                          Dialog("showwarning",
                                 <<"Please load an evidence source first.">>)]
            /\ frames' = frames
       ELSE IF gui.analysis_thread # 0 /\ IsAlive(gui.analysis_thread)
       THEN /\ gui' = [gui EXCEPT !.dialog =
                          Dialog("showwarning",
                                 <<"Analysis already in progress.">>)]
            /\ frames' = frames
       ELSE /\ Len(frames) < MaxThreads
            /\ frames' = Append(frames, NewThread("analyze_blocks", "progress"))
            /\ gui' = [gui EXCEPT !.status = <<"Starting block analysis...">>,
                                  !.analysis_thread = Len(frames) + 1]
    /\ UNCHANGED <<media, analyzers, progress_queue, extractor, probe>>

\* run_correlation: the thread is a local of the handler
RunCorrelation ==
    /\ IF gui.analyzer = 0
       THEN /\ gui' = [gui EXCEPT !.dialog =
                          Dialog("showwarning",
                                 <<"Please analyze blocks first.">>)]
            /\ frames' = frames
       ELSE IF DOMAIN analyzers[gui.analyzer].blocks = {}
       THEN /\ gui' = [gui EXCEPT !.dialog =
                          Dialog("showwarning",
                                 <<"Please analyze blocks first.">>)]
            /\ frames' = frames
       ELSE /\ Len(frames) < MaxThreads
            /\ frames' = Append(frames, NewThread("correlate_blocks",
                                                  "correlation_progress"))
            /\ gui' = [gui EXCEPT
                          !.status = <<"Running correlation engine...">>]
    /\ UNCHANGED <<media, analyzers, progress_queue, extractor, probe>>

\* thread t reaches `self.analyzer.analyze_blocks(progress_callback)` or
\* `self.analyzer.correlate_blocks(progress_callback)`: self.analyzer is
\* read now
ThreadCall(t) ==
    /\ t \in DOMAIN frames
    /\ frames[t].state = "start"
    /\ frames' = [frames EXCEPT ![t].self = gui.analyzer, ![t].state = "loop"]
    /\ UNCHANGED <<media, analyzers, progress_queue, gui, extractor, probe>>

\* thread t after its call has returned: progress_queue.put(('complete',
\* blocks_analyzed)) or progress_queue.put(('correlation_complete', count)),
\* and the target returns
ThreadComplete(t) ==
    /\ t \in DOMAIN frames
    /\ frames[t].state = "returned"
    /\ progress_queue' =
          Append(progress_queue,
                 IF frames[t].op = "analyze_blocks"
                 THEN [type |-> "complete",
                       blocks_analyzed |-> frames[t].result]
                 ELSE [type |-> "correlation_complete",
                       count |-> frames[t].result])
    /\ frames' = [frames EXCEPT ![t].state = "finished"]
    /\ UNCHANGED <<media, analyzers, gui, extractor, probe>>

\* a monitor that would take the newest message off the queue
ProgressMonitorNewestFirst ==
    /\ progress_queue # << >>
    /\ gui' = [gui EXCEPT !.status = <<"Polled">>]
    /\ progress_queue' = SubSeq(progress_queue, 1, Len(progress_queue) - 1)
    /\ UNCHANGED <<media, analyzers, frames, extractor, probe>>

\* _start_progress_monitor, one get_nowait() and its branch: a message of
\* any other type than 'progress', 'complete' and 'error' is taken off the
\* queue and dropped
ProgressMonitor ==
    LET Handle(msg) ==
            IF msg.type = "progress"
            THEN [gui EXCEPT !.progress_var = msg.progress,
                             !.status = msg.message]
            ELSE IF msg.type = "complete"
            THEN [DrawTreemap([gui EXCEPT
                      !.progress_var = <<100, 1>>,
                      !.status = <<"Analysis complete", msg.blocks_analyzed>>])
                  EXCEPT !.dialog =
                      Dialog("showinfo", <<"Analyzed", msg.blocks_analyzed>>)]
            ELSE IF msg.type = "error"
            THEN [gui EXCEPT !.status = <<"Error", msg.error>>,
                             !.dialog = Dialog("showerror",
                                               <<"Analysis failed", msg.error>>)]
            ELSE gui
    IN  /\ progress_queue # << >>
        /\ gui' = Handle(Head(progress_queue))
        /\ progress_queue' = Tail(progress_queue)
        /\ UNCHANGED <<media, analyzers, frames, extractor, probe>>

\* a forensic analysis that would warn when ctime is the later of the two
ForensicAnalysisReversed(block_data) ==
    (IF block_data.mtime # None /\ block_data.ctime # None
     THEN IF After(block_data.ctime, block_data.mtime)
          THEN {"TimestampImpossible"} ELSE {"TimestampsNormal"}
     ELSE {})
    \cup
    (IF block_data.mtime # None /\ block_data.atime # None
        /\ After(block_data.mtime, block_data.atime)
     THEN {"AccessBeforeModify"} ELSE {})

\* the "Forensic Analysis" lines show_block_details writes for a record with
\* the fields mtime, ctime and atime: a datetime is truthy, None is not
ForensicAnalysis(block_data) ==
    (IF block_data.mtime # None /\ block_data.ctime # None
     THEN IF After(block_data.mtime, block_data.ctime)
          THEN {"TimestampImpossible"} ELSE {"TimestampsNormal"}
     ELSE {})
    \cup
    (IF block_data.mtime # None /\ block_data.atime # None
        /\ After(block_data.mtime, block_data.atime)
     THEN {"AccessBeforeModify"} ELSE {})

\* show_block_details: get_block_info is self.blocks.get(block_id)
ShowBlockDetails(g, block_id) ==
    LET Shown(block_data) ==
            [g EXCEPT !.timestamp_text = ForensicAnalysis(block_data),
                      !.status = <<"Selected block", block_id,
                                   analyzers[g.analyzer].filesystem_type>>]
    IN  IF block_id \notin DOMAIN analyzers[g.analyzer].blocks THEN g
        ELSE Shown(analyzers[g.analyzer].blocks[block_id])

\* on_canvas_click on the rectangle of a treemap block (a click elsewhere
\* finds no block and does nothing)
OnCanvasClick ==
    /\ probe.queries < MaxQueries
    /\ \E b \in DOMAIN gui.treemap_blocks :
          gui' = ShowBlockDetails(
                     [gui EXCEPT !.selected_block = gui.treemap_blocks[b]],
                     gui.treemap_blocks[b].block_id)
    /\ probe' = [probe EXCEPT !.queries = @ + 1]
    /\ UNCHANGED <<media, analyzers, frames, progress_queue, extractor>>

\* on_canvas_resize
OnCanvasResize ==
    /\ probe.queries < MaxQueries
    /\ gui' = DrawTreemap(gui)
    /\ probe' = [probe EXCEPT !.queries = @ + 1]
    /\ UNCHANGED <<media, analyzers, frames, progress_queue, extractor>>

\* export_report with a file chosen: the report json.dump writes
ExportReport ==
    /\ probe.queries < MaxQueries
    /\ IF gui.analyzer = 0
       THEN gui' = [gui EXCEPT !.dialog =
                       Dialog("showwarning", <<"No data to export.">>)]
       ELSE gui' = [gui EXCEPT
                       !.report =
                           [total_blocks |->
                                Cardinality(DOMAIN analyzers[gui.analyzer].blocks),
                            correlations |->
                                Len(analyzers[gui.analyzer].correlations),
                            timeline_events |-> 0,
                            blocks |-> DOMAIN analyzers[gui.analyzer].blocks],
                       !.dialog = Dialog("showinfo", <<"Report exported">>),
                       !.status = <<"Exported report">>]
    /\ probe' = [probe EXCEPT !.queries = @ + 1]
    /\ UNCHANGED <<media, analyzers, frames, progress_queue, extractor>>

\* reconstruct_file: the first 50 correlations go to the results tab
ReconstructFile ==
    /\ probe.queries < MaxQueries
    /\ IF gui.analyzer = 0
       THEN gui' = [gui EXCEPT !.dialog =
                       Dialog("showwarning",
                              <<"Please run correlation first.">>)]
       ELSE IF analyzers[gui.analyzer].correlations = << >>
       THEN gui' = [gui EXCEPT !.dialog =
                       Dialog("showwarning",
                              <<"Please run correlation first.">>)]
       ELSE gui' = [gui EXCEPT
                       !.correlation_tree =
                           SubSeq(analyzers[gui.analyzer].correlations, 1,
                                  Min(50, Len(analyzers[gui.analyzer].correlations))),
                       !.dialog =
                           Dialog("showinfo",
                                  <<"Found correlations",
                                    Len(analyzers[gui.analyzer].correlations)>>)]
    /\ probe' = [probe EXCEPT !.queries = @ + 1]
    /\ UNCHANGED <<media, analyzers, frames, progress_queue, extractor>>

NextGui ==
    \/ LoadUsbDevice
    \/ StartAnalysis
    \/ RunCorrelation
    \/ OnCanvasClick
    \/ OnCanvasResize
    \/ ExportReport
    \/ ReconstructFile
    \/ \E t \in Threads : ThreadCall(t)
    \/ \E t \in Threads : AnalyzeStep(t)
    \/ \E t \in Threads : AnalyzeReturn(t)
    \/ \E t \in Threads : CorrelateRun(t)
    \/ \E t \in Threads : ThreadComplete(t)
    \/ ProgressMonitor
    \/ MediaChange

SpecGui == InitGui /\ [][NextGui]_vars

\* the monitor re-arms itself with root.after(100, ...) at the end of every
\* run, so a message on the queue is polled sooner or later
SpecGuiFair == SpecGui /\ WF_vars(ProgressMonitor)

-----------------------------------------------------------------------------
(* SpecFlags: the forensic analysis of show_block_details as a function of  *)
(* the timestamps of the record shown.  The record is decoded from raw      *)
(* on-disk values of one clock, next to a session that analyzed a one-block *)
(* image.                                                                   *)

\* the raw values a shown record is decoded from: seconds of the Unix clock
\* (2024-01-01 00:00:00, one second later, 2024-01-02) and FILETIMEs; the
\* zero of either clock decodes to None
UnixInstants == {0, 1704067200, 1704067201, 1704153600}
FiletimeInstants == {FtZero, Ft20240101, Ft20240102, Ft20240103}

\* the record the parsers decode from the raw values m, c, a of a clock
DecodedRecord(clock, m, c, a) ==
    IF clock = "unix"
    THEN Timestamps(UnixToDatetime(m), UnixToDatetime(c), UnixToDatetime(a),
                    None)
    ELSE Timestamps(FiletimeToDatetime(m), FiletimeToDatetime(c),
                    FiletimeToDatetime(a), None)

InitFlags ==
    /\ media = NewMedia("exfat")
    /\ analyzers =
          <<[LoadSource(NewDiskAnalyzer(4096)) EXCEPT
                !.blocks = 0 :> NewBlock(0, 0, ReaderRead(0, 4096))]>>
    /\ frames = << >>
    /\ progress_queue = << >>
    /\ gui = None
    /\ extractor = None
    /\ \E clock \in {"unix", "filetime"} :
          \E m, c, a \in IF clock = "unix" THEN UnixInstants
                         ELSE FiletimeInstants :
              probe = [op |-> "new", clock |-> clock, raw |-> <<m, c, a>>,
                       block_data |-> DecodedRecord(clock, m, c, a),
                       timestamp_text |-> None]

\* show_block_details reaches "=== Forensic Analysis ===" for the record
CallForensicAnalysis ==
    /\ probe.op = "new"
    /\ probe' = [probe EXCEPT
                    !.op = "show_block_details",
                    !.timestamp_text = ForensicAnalysis(probe.block_data)]
    /\ UNCHANGED <<media, analyzers, frames, progress_queue, gui, extractor>>

NextFlags == CallForensicAnalysis

SpecFlags == InitFlags /\ [][NextFlags]_vars

-----------------------------------------------------------------------------
(* SpecParse: the decoders of on-disk values as functions of the raw words. *)
(* A FAT date word is (year - 1980) * 512 + month * 32 + day and a time     *)
(* word hour * 2048 + minute * 32 + second / 2; the words are laid out from *)
(* civil fields that reach one step beyond every valid range.               *)

InitParse ==
    /\ media = NewMedia("zero")
    /\ analyzers = << >>
    /\ frames = << >>
    /\ progress_queue = << >>
    /\ gui = None
    /\ extractor = None
    /\ \E year \in {1980, 2000, 2004, 2100, 2107}, month \in 0..13,
          day \in 0..32, hour \in {0, 23, 24}, minute \in {0, 59, 60},
          second \in {0, 58, 60} :
          probe = [op |-> "new",
                   civil |-> <<year, month, day, hour, minute, second>>,
                   date |-> (year - 1980) * 512 + month * 32 + day,
                   time |-> hour * 2048 + minute * 32 + second \div 2,
                   returned |-> None]

\* the caller decodes the two words with _fat_datetime
CallFatDatetime ==
    /\ probe.op = "new"
    /\ probe' = [probe EXCEPT !.op = "_fat_datetime",
                              !.returned = FatDatetime(probe.date, probe.time)]
    /\ UNCHANGED <<media, analyzers, frames, progress_queue, gui, extractor>>

NextParse == CallFatDatetime

SpecParse == InitParse /\ [][NextParse]_vars

-----------------------------------------------------------------------------
(* Claims about DiskAnalyzer, checked under Spec *)

\* C1: after analyze_blocks (also when some reads failed and their ids are
\* missing from the block collection) and correlate_blocks, no
\* CorrelationResult exists for a pair (i, j) with i < j and j - i >= 50.
C1_NoPairFiftyApart ==
    \A a \in DOMAIN analyzers :
        \A k \in DOMAIN analyzers[a].correlations :
            analyzers[a].correlations[k].block2_id
                - analyzers[a].correlations[k].block1_id < 50

\* C2: after every completed correlate_blocks run the correlation list holds
\* exactly the results of that run: its length is the count the run
\* returned and no pair is listed twice.
C2_RerunReplacesResults ==
    \A t \in DOMAIN frames :
        (frames[t].op = "correlate_blocks" /\ frames[t].state = "returned")
        => LET found == analyzers[frames[t].self].correlations
           IN  /\ Len(found) = frames[t].result
               /\ \A i, j \in DOMAIN found :
                     found[i].sequence_order = found[j].sequence_order => i = j

\* C7: every Block that analyze_blocks stores carries the mtime, ctime, atime
\* and btime of the record the metadata index lookup returns for the
\* block's offset, and has all four absent exactly when that lookup returns
\* unknown.
C7_BlockCarriesLookupTimestamps ==
    \A a \in DOMAIN analyzers :
        \A k \in DOMAIN analyzers[a].blocks :
            LET Same(block, record) ==
                    IF record = None
                    THEN /\ block.mtime = None /\ block.ctime = None
                         /\ block.atime = None /\ block.btime = None
                    ELSE /\ block.mtime = record.mtime
                         /\ block.ctime = record.ctime
                         /\ block.atime = record.atime
                         /\ block.btime = record.btime
                         /\ ~(/\ block.mtime = None /\ block.ctime = None
                              /\ block.atime = None /\ block.btime = None)
            IN  Same(analyzers[a].blocks[k],
                     GetMetadataForOffset(NewFixedExtractor,
                                          analyzers[a].blocks[k].offset)[2])

\* C9: when the read of block k fails in analyze_blocks, the iteration stores
\* no Block (the block collection is as before, so every Block stored
\* earlier is kept), the pass goes on with block k + 1, and the pass ends by
\* emitting its final progress event and returning the number of Blocks it
\* stored.
C9_FailedReadSkipsOnlyThatBlock ==
    [][\A t \in DOMAIN frames :
          /\ (/\ AnalyzeStep(t)
              /\ ReaderRead(frames[t].block_id
                                * analyzers[frames[t].self].block_size,
                            analyzers[frames[t].self].block_size) = Raise)
             => /\ analyzers'[frames[t].self].blocks
                       = analyzers[frames[t].self].blocks
                /\ frames'[t].block_id = frames[t].block_id + 1
                /\ frames'[t].state = "loop"
                /\ frames'[t].blocks_analyzed = frames[t].blocks_analyzed
                /\ frames[t].block_id \notin frames'[t].stored
          /\ AnalyzeReturn(t)
             => /\ \/ frames[t].state = "break"
                   \/ frames[t].skipped \cup frames[t].stored
                          = 0..(analyzers[frames[t].self].total_blocks - 1)
                /\ frames'[t].result = Cardinality(frames[t].stored)
                /\ progress_queue' # << >>
                /\ progress_queue'[Len(progress_queue')].progress = <<100, 1>>
      ]_vars

\* C9 happens: a pass has returned in which a read failed after one Block
\* was stored and before another was
C9_Witness ==
    \E t \in DOMAIN frames :
        /\ frames[t].op = "analyze_blocks"
        /\ frames[t].state = "returned"
        /\ frames[t].result = Cardinality(frames[t].stored)
        /\ \E k \in frames[t].skipped :
              /\ \E i \in frames[t].stored : i < k
              /\ \E j \in frames[t].stored : j > k
              /\ k \notin DOMAIN analyzers[frames[t].self].blocks

C14_ScoreDefinedBoundedMonotone ==
    LET Holds(d, matching, tenths, similar, score) ==
            /\ d > 0
            /\ score # Raise
            /\ score.den = 819200 * d
            /\ score.num = 409600 * matching + 24576 * tenths * d
                               + 20 * similar * d
            /\ 0 <= score.num /\ score.num <= score.den
            /\ \A other \in 0..d :
                  /\ other >= matching
                     => CombinedScore(d, other, 3 * tenths, similar).num
                            >= score.num
                  /\ other <= matching
                     => CombinedScore(d, other, 3 * tenths, similar).num
                            <= score.num
        Pair(block1, block2) ==
            Holds(CompareLength(block1, block2),
                  MatchingBytes(TailBytes(block1), HeadBytes(block2)),
                  IF block1.metadata.has_magic = block2.metadata.has_magic
                  THEN 3 ELSE 0,
                  Max(0, 8192 - EntropyDiff(block1, block2)),
                  CalculateCorrelation(block1, block2))
    IN  \A a \in DOMAIN analyzers :
            \A i, j \in DOMAIN analyzers[a].blocks :
                i < j => Pair(analyzers[a].blocks[i], analyzers[a].blocks[j])

\* C14 happens: two stored blocks agree in some but not all of the compared
\* bytes, and their score lies strictly between 0 and 1
C14_Witness ==
    \E a \in DOMAIN analyzers :
        \E i, j \in DOMAIN analyzers[a].blocks :
            LET block1 == analyzers[a].blocks[i]
                block2 == analyzers[a].blocks[j]
                matching == MatchingBytes(TailBytes(block1), HeadBytes(block2))
                score == CalculateCorrelation(block1, block2)
            IN  /\ i < j
                /\ 0 < matching
                /\ matching < CompareLength(block1, block2)
                /\ 0 < score.num /\ score.num < score.den

\* C15: every CorrelationResult has block1_id < block2_id, sequence_order =
\* (block1_id, block2_id) and reconstruction_confidence = correlation_score,
\* and the results a step appends name two keys of the block collection of
\* that moment and carry the score of those two blocks.
C15_ResultFieldsConsistent ==
    [][\A a \in DOMAIN analyzers' :
          LET before == IF a \in DOMAIN analyzers
                        THEN Len(analyzers[a].correlations) ELSE 0
          IN  \A k \in 1..Len(analyzers'[a].correlations) :
                 LET corr == analyzers'[a].correlations[k]
                 IN  /\ corr.block1_id < corr.block2_id
                     /\ corr.sequence_order = <<corr.block1_id, corr.block2_id>>
                     /\ corr.reconstruction_confidence = corr.correlation_score
                     /\ k > before
                        => /\ corr.block1_id \in DOMAIN analyzers[a].blocks
                           /\ corr.block2_id \in DOMAIN analyzers[a].blocks
                           /\ corr.correlation_score
                                = CalculateCorrelation(
                                      analyzers[a].blocks[corr.block1_id],
                                      analyzers[a].blocks[corr.block2_id])
      ]_vars

\* C15 happens: a correlation pass returned and left results, among them one
\* between blocks that are not neighbours
C15_Witness ==
    \E t \in DOMAIN frames :
        /\ frames[t].op = "correlate_blocks"
        /\ frames[t].state = "returned"
        /\ frames[t].result > 0
        /\ \E k \in 1..Len(analyzers[frames[t].self].correlations) :
              analyzers[frames[t].self].correlations[k].block2_id
                  > analyzers[frames[t].self].correlations[k].block1_id + 1

\* C16: every stored Block b is stored under the key b.block_id, has
\* b.offset = b.block_id * block_size and 0 < b.size <= block_size, and its
\* head and tail samples hold between 1 and 512 bytes; the block_size of a
\* session never changes after the session is created.
C16_BlockShape ==
    [][\A a \in DOMAIN analyzers' :
          /\ a \in DOMAIN analyzers
             => analyzers'[a].block_size = analyzers[a].block_size
          /\ \A id \in DOMAIN analyzers'[a].blocks :
                LET b == analyzers'[a].blocks[id]
                IN  /\ b.block_id = id
                    /\ b.offset = id * analyzers'[a].block_size
                    /\ 0 < b.size /\ b.size <= analyzers'[a].block_size
                    /\ b.head_data.len \in 1..512
                    /\ b.tail_data.len \in 1..512
                    /\ b.head_data.len = Min(b.size, 512)
                    /\ b.tail_data.len = Min(b.size, 512)
      ]_vars

\* C16 happens: a session holds a full block larger than the samples and a
\* short last block whose samples are the whole block
C16_Witness ==
    \E a \in DOMAIN analyzers :
        \E id, last \in DOMAIN analyzers[a].blocks :
            /\ analyzers[a].blocks[id].size = analyzers[a].block_size
            /\ analyzers[a].blocks[id].size > 512
            /\ analyzers[a].blocks[id].head_data.len = 512
            /\ last > 0
            /\ analyzers[a].blocks[last].size < analyzers[a].block_size
            /\ analyzers[a].blocks[last].tail_data.len
                   = analyzers[a].blocks[last].size

\* C19: correlating before analyzing surfaces as an explicit error: a
\* correlate_blocks request on an empty block collection runs no pass and
\* never returns a count (it raises instead), and the correlation list stays
\* as it was.
C19_CorrelateBeforeAnalyzeIsError ==
    \A t \in DOMAIN frames :
        (/\ frames[t].op = "correlate_blocks"
         /\ DOMAIN analyzers[frames[t].self].blocks = {})
        => /\ frames[t].state # "returned"
           /\ analyzers[frames[t].self].correlations = << >>

\* C23: the byte_similarity of a pair (i, j) is the fraction of positionally
\* equal bytes between the last <= 128 bytes of block i's tail sample and the
\* first <= 128 bytes of block j's head sample, over the smaller of the two
\* compared lengths: the score of the pair is the one that fraction gives.
C23_ByteSimilarityOverLastTailBytes ==
    LET Pair(block1, block2) ==
            CalculateCorrelation(block1, block2)
                = CombinedScore(
                      Min(Min(128, block1.tail_data.len),
                          Min(128, block2.head_data.len)),
                      MatchingBytes(LastN(block1.tail_data, 128),
                                    Slice(block2.head_data, 0, 128)),
                      IF block1.metadata.has_magic = block2.metadata.has_magic
                      THEN 9 ELSE 0,
                      Max(0, 8192 - EntropyDiff(block1, block2)))
    IN  \A a \in DOMAIN analyzers :
            \A i, j \in DOMAIN analyzers[a].blocks :
                i < j => Pair(analyzers[a].blocks[i], analyzers[a].blocks[j])

-----------------------------------------------------------------------------
(* Claims about the metadata extractor, checked under SpecMeta *)

\* C4: over any sequence of detect_filesystem and lookup calls, detection
\* plus pre-scan runs at most once (also when the first boot-sector read
\* fails), and after that first run no lookup changes the index or the
\* detected filesystem type.
C4_DetectionRunsOnce ==
    [][/\ probe'.scans <= 1
       /\ (probe.scans >= 1 /\ CallExtractBlockMetadata)
          => /\ extractor'.extractor.offset_to_metadata
                    = extractor.extractor.offset_to_metadata
             /\ extractor'.extractor.filesystem_type
                    = extractor.extractor.filesystem_type
      ]_vars

\* C5: lookup(offset) returns the record cached at the block boundary of the
\* offset when there is one; otherwise the record of the cached
\* block-aligned offset nearest to that boundary within the filesystem's
\* radius (10 blocks for NTFS and FAT32, 5 for ext4); otherwise unknown.
C5_LookupNearestWithinRadius ==
    (/\ probe.op = "extract_block_metadata"
     /\ extractor.extractor.filesystem_type \in {"NTFS", "FAT32", "ext4"})
    => LET index == extractor.extractor.offset_to_metadata
           size == extractor.extractor.block_size
           radius == IF extractor.extractor.filesystem_type = "ext4"
                     THEN 5 ELSE 10
           boundary == (probe.offset \div size) * size
           Distance(k) == IF k >= boundary THEN k - boundary ELSE boundary - k
           near == {k \in DOMAIN index :
                       k % size = 0 /\ Distance(k) <= radius * size}
       IN  IF boundary \in DOMAIN index
           THEN probe.returned.timestamps = index[boundary]
           ELSE IF near # {}
           THEN \E k \in near :
                   /\ \A m \in near : Distance(k) <= Distance(m)
                   /\ probe.returned.timestamps = index[k]
           ELSE probe.returned.timestamps = None

\* C6: after a pre-scan every key of the index is a non-negative multiple of
\* block_size, and for each structure decoded at offset s every
\* block-aligned offset within the radius of s (10 blocks for NTFS and
\* FAT32, 5 for ext4) is a key, so that lookup on the block containing s
\* returns a record.
C6_IndexKeysAlignedAndComplete ==
    extractor.extractor.scanned
    => LET x == extractor.extractor
           Covered(s, radius) ==
               /\ \A b \in 0..(s \div x.block_size + radius) :
                     (/\ b * x.block_size >= s - radius * x.block_size
                      /\ b * x.block_size <= s + radius * x.block_size)
                     => b * x.block_size \in DOMAIN x.offset_to_metadata
               /\ LookupIndex(x.offset_to_metadata, x.block_size, s) # None
       IN  /\ \A k \in DOMAIN x.offset_to_metadata :
                 k >= 0 /\ k % x.block_size = 0
           /\ \A s \in DOMAIN x.mft_cache : Covered(s, 10)
           /\ \A s \in DOMAIN x.fat_cache : Covered(s, 10)
           /\ \A s \in DOMAIN x.inode_cache : Covered(s, 5)

\* C8: in each pre-scan a read or decode failure on one candidate (an MFT
\* entry, an inode slot, an ext4 block-group descriptor, a directory
\* sector) skips only that item: every candidate inside the scan bounds,
\* which the boot sector or superblock of the image give, has been visited
\* by the time the scan is over.
C8_EveryCandidateVisited ==
    extractor.extractor.scanned
    => LET x == extractor.extractor
           visited == {x.reads[i] : i \in DOMAIN x.reads}
           boot_sector == Bytes(0, Min(512, media.size))
           superblock == Bytes(1024, Min(1024, media.size - 1024))
           mft_offset == U64At(boot_sector, 48)
                             * (U16At(boot_sector, 11) * Byte(boot_sector, 13))
           data_offset == U16At(boot_sector, 14) * U16At(boot_sector, 11)
                              + Byte(boot_sector, 16) * U32At(boot_sector, 36)
                                    * U16At(boot_sector, 11)
           block_size == ShiftLeft1024(U32At(superblock, 24))
           inode_size == IF U16At(superblock, 88) = 0 THEN 128
                         ELSE U16At(superblock, 88)
           Descriptor(group) == block_size * 2 + group * 32
           InodeTable(group) ==
               U32At(Bytes(Descriptor(group), 32), 8) * block_size
       IN  /\ x.filesystem_type = "NTFS"
              => \A entry_num \in 0..(Min(10000, media.size \div 1024) - 1) :
                    mft_offset + entry_num * 1024 \in visited
           /\ x.filesystem_type = "FAT32"
              => \A k \in 0..((media.size - data_offset - 1) \div 512) :
                    data_offset + k * 512 \in visited
           /\ x.filesystem_type = "ext4"
              => \A group \in 0..(Min(10, U32At(superblock, 4) \div 8192) - 1) :
                    /\ Descriptor(group) \in visited
                    /\ \A inode_num
                           \in 0..(Min(U32At(superblock, 40), 1000) - 1) :
                          InodeTable(group) + inode_num * inode_size
                              \in visited

\* C10: when detection has read the boot sector and classified the image as
\* Unknown, the index is empty, a lookup returns unknown timestamps and no
\* error is raised.
C10_UnknownLeavesIndexEmpty ==
    (/\ extractor.extractor.scanned
     /\ extractor.extractor.filesystem_type = "Unknown"
     /\ Len(extractor.extractor.reads) > 1)
    => /\ extractor.extractor.offset_to_metadata = << >>
       /\ probe.op = "extract_block_metadata"
          => /\ probe.returned # Raise
             /\ probe.returned.timestamps = None

\* C11: detection precedence is first match wins.  A detect_filesystem call
\* that runs detection and can read the boot sector and the superblock
\* returns NTFS whenever the boot sector contains 'NTFS' (whatever the
\* superblock and the FAT fields hold), returns ext4 whenever it does not
\* and the u16 at superblock offset 56 is 0xEF53, and considers FAT32 only
\* when neither holds; the extractor is left as the pre-scan of the returned
\* type alone leaves it.
C11_DetectionPrecedence ==
    [][(/\ ~extractor.detected_fs
        /\ media.bad \cap {0, 1024} = {}
        /\ probe'.scans = probe.scans + 1
        /\ CallDetectFilesystem)
       => LET start == [extractor.extractor EXCEPT !.reads = <<0>>]
              boot_sector == Bytes(0, Min(512, media.size))
              superblock ==
                  Bytes(1024, Max(0, Min(1024, media.size - 1024)))
              Ran(type, after) ==
                  /\ probe'.returned.value = type
                  /\ extractor'.extractor = [after EXCEPT !.scanned = TRUE]
          IN  IF Contains(boot_sector, SigNTFS)
              THEN Ran("NTFS",
                       ScanNtfsMft([start EXCEPT !.filesystem_type = "NTFS"]))
              ELSE IF superblock.len >= 58 /\ U16At(superblock, 56) = 61267
              THEN Ran("ext4",
                       ScanExt4Inodes([Logged(start, 1024) EXCEPT
                                          !.filesystem_type = "ext4"]))
              ELSE /\ probe'.returned.value \in {"FAT32", "Unknown"}
                   /\ probe'.returned.value = "FAT32"
                      => Ran("FAT32",
                             ScanFat32Directory([Logged(start, 1024) EXCEPT
                                                    !.filesystem_type = "FAT32"]))
      ]_vars

\* C11 happens: detection has run on the image that holds all three
\* signatures, has returned NTFS and has cached the MFT entries only
C11_Witness ==
    /\ media.image = "mixed"
    /\ probe.op = "detect_filesystem"
    /\ probe.returned.value = "NTFS"
    /\ extractor.extractor.scanned
    /\ DOMAIN extractor.extractor.mft_cache # {}
    /\ DOMAIN extractor.extractor.inode_cache = {}
    /\ DOMAIN extractor.extractor.fat_cache = {}

\* C12: with no NTFS and no ext4 match, a detect_filesystem call that runs
\* detection (boot sector and superblock readable) returns FAT32 exactly when
\* 'FAT32' is at boot-sector offset 54 or 'FAT32   ' at offset 82, returns
\* exFAT when 'EXFAT   ' is at offset 3, and Unknown for every other boot
\* sector.
C12_FatExfatUnknown ==
    [][(/\ ~extractor.detected_fs
        /\ media.bad \cap {0, 1024} = {}
        /\ probe'.scans = probe.scans + 1
        /\ CallDetectFilesystem
        /\ ~Contains(Bytes(0, Min(512, media.size)), SigNTFS)
        /\ ~CheckExt4(ReaderRead(1024, 1024)))
       => LET boot_sector == Bytes(0, Min(512, media.size))
          IN  probe'.returned.value =
                  IF \/ Is(Slice(boot_sector, 54, 59), SigFAT32)
                     \/ Is(Slice(boot_sector, 82, 90), SigFAT32Padded)
                  THEN "FAT32"
                  ELSE IF Is(Slice(boot_sector, 3, 11), SigEXFAT)
                  THEN "exFAT"
                  ELSE "Unknown"
      ]_vars

C25_WalkStaysInsideEntry ==
    LET Walk(data, cursors) ==
            /\ \A k \in 1..(Len(cursors) - 1) :
                  /\ cursors[k] < cursors[k + 1]
                  /\ U32At(data, cursors[k] + 4) <= data.len - cursors[k]
                  /\ cursors[k + 1] <= data.len
        Entry(data) ==
            (Is(Slice(data, 0, 4), SigFILE) /\ data.len >= 22)
            => Walk(data, WalkCursors(data, U16At(data, 20)))
    IN  \A k \in DOMAIN extractor.extractor.mft_cache
                 \cup {extractor.extractor.reads[r] :
                          r \in 1..Len(extractor.extractor.reads)} :
            extractor.extractor.filesystem_type = "NTFS"
            => Entry(Bytes(k, Max(0, Min(1024, media.size - k))))

\* C26 as stated: every pre-scan terminates, also when reads fail; the NTFS
\* scan reads at most min(10000, source_size/1024) entries, the ext4 scan at
\* most min(10, blocks_count/8192) groups of at most 1000 inode slots each,
\* the FAT32 scan at most min(remaining_source_size, 50 MiB)/512 sectors,
\* and each candidate is read exactly once.
C26_ScanReadsWithinBounds ==
    LET x == extractor.extractor
        boot_sector == Bytes(0, Min(512, media.size))
        data_offset == U16At(boot_sector, 14) * U16At(boot_sector, 11)
                           + Byte(boot_sector, 16) * U32At(boot_sector, 36)
                                 * U16At(boot_sector, 11)
    IN  (x.filesystem_type = "FAT32" /\ Len(x.reads) >= 3)
        => (Len(x.reads) - 3) * 512
               <= Max(0, Min(media.size - data_offset, 50 * 1024 * 1024))

\* C26, amended: every pre-scan terminates, also when reads fail.  After the
\* reads of detection and of the boot sector or superblock, the NTFS scan
\* reads the entries mft_offset + n * 1024 in turn, at most
\* min(10000, source_size \div 1024) of them; the ext4 scan reads, for at
\* most min(10, blocks_count \div 8192) groups in turn, the descriptor and
\* then at most 1000 inode slots in turn; the FAT32 scan reads the sectors
\* data_offset + n * 512 in turn, as many as begin within
\* min(remaining_source_size, 50 MiB) bytes of the data region, the last of
\* them possibly short.  No candidate is read twice.
C26_ScanReadsEachCandidateOnce ==
    LET x == extractor.extractor
        boot_sector == Bytes(0, Min(512, media.size))
        superblock == Bytes(1024, Max(0, Min(1024, media.size - 1024)))
        mft_offset == U64At(boot_sector, 48)
                          * (U16At(boot_sector, 11) * Byte(boot_sector, 13))
        data_offset == U16At(boot_sector, 14) * U16At(boot_sector, 11)
                           + Byte(boot_sector, 16) * U32At(boot_sector, 36)
                                 * U16At(boot_sector, 11)
        block_size == ShiftLeft1024(U32At(superblock, 24))
        inode_size == IF U16At(superblock, 88) = 0 THEN 128
                      ELSE U16At(superblock, 88)
        slots == Min(U32At(superblock, 40), 1000)
        InodeTable(group) ==
            U32At(Bytes(block_size * 2 + group * 32, 32), 8) * block_size
        Ext4Read(n) ==
            IF n % (slots + 1) = 0
            THEN block_size * 2 + (n \div (slots + 1)) * 32
            ELSE InodeTable(n \div (slots + 1))
                     + ((n % (slots + 1)) - 1) * inode_size
    IN  /\ (x.filesystem_type = "NTFS" /\ Len(x.reads) >= 2)
           => /\ Len(x.reads) - 2 <= Min(10000, media.size \div 1024)
              /\ \A k \in 3..Len(x.reads) :
                    x.reads[k] = mft_offset + (k - 3) * 1024
        /\ (x.filesystem_type = "ext4" /\ Len(x.reads) >= 3)
           => /\ slots <= 1000
              /\ Len(x.reads) - 3
                     <= Min(10, U32At(superblock, 4) \div 8192) * (slots + 1)
              /\ \A k \in 4..Len(x.reads) : x.reads[k] = Ext4Read(k - 4)
        /\ (x.filesystem_type = "FAT32" /\ Len(x.reads) >= 3)
           => /\ (Len(x.reads) - 3) * 512
                     < Max(0, Min(media.size - data_offset, 50 * 1024 * 1024))
                           + 512
              /\ \A k \in 4..Len(x.reads) :
                    x.reads[k] = data_offset + (k - 4) * 512

\* A FAT32 scan over a data region of 1636 bytes has read its four sectors,
\* one of them failing
C26_Witness ==
    /\ media.image = "fatodd"
    /\ 4608 \in media.bad
    /\ extractor.extractor.filesystem_type = "FAT32"
    /\ extractor.extractor.scanned
    /\ extractor.extractor.reads = <<0, 1024, 0, 3584, 4096, 4608, 5120>>

-----------------------------------------------------------------------------
(* Claims about the ForensicGUI controller, checked under SpecGui *)

\* C3: at most one background pass (analysis or correlation) is running at
\* any time: a handler that is asked for a pass while a thread is alive
\* starts no thread.
C3_OneBackgroundPass ==
    [][/\ Cardinality({t \in DOMAIN frames' : frames'[t].state # "finished"})
              <= 1
       /\ (\E t \in DOMAIN frames : IsAlive(t)) => Len(frames') = Len(frames)
      ]_vars

\* C17: the read-only queries of the interactive side (get_block_info through
\* a click, draw_treemap on resize, export_report, reconstruct_file) never
\* happen while the pass that writes the collection they read is still
\* running on the controller's analyzer.  A request that returns at its
\* first test and shows nothing does not count as a query.
C17_QueriesNeverOverlapWriter ==
    [][LET Writing(op) ==
               \E t \in DOMAIN frames :
                   /\ Running(t)
                   /\ frames[t].op = op
                   /\ frames[t].self = gui.analyzer
       IN  /\ (/\ probe'.queries = probe.queries + 1
               /\ gui.analyzer # 0
               /\ gui' # gui
               /\ OnCanvasClick \/ OnCanvasResize \/ ExportReport)
              => ~Writing("analyze_blocks")
           /\ (/\ probe'.queries = probe.queries + 1
               /\ gui.analyzer # 0
               /\ gui' # gui
               /\ ExportReport \/ ReconstructFile)
              => ~Writing("correlate_blocks")
      ]_vars

\* C18: if opening the source fails, no session is started: the controller
\* holds no analyzer for that source, and start_analysis and run_correlation
\* are rejected (a warning, no thread) as long as the controller holds no
\* analyzer whose source was opened.
C18_FailedOpenStartsNoSession ==
    [][LET Unopened(a) == a = LoadFailed(NewDiskAnalyzer(4096))
           NoSource ==
               \/ gui.analyzer = 0
               \/ Unopened(analyzers[gui.analyzer])
       IN  /\ (/\ Len(analyzers') = Len(analyzers) + 1
               /\ Unopened(analyzers'[Len(analyzers')])
               /\ LoadUsbDevice)
              => gui'.analyzer # Len(analyzers')
           /\ (NoSource /\ (StartAnalysis \/ RunCorrelation))
              => /\ frames' = frames
                 /\ gui'.dialog.kind = "showwarning"
      ]_vars

\* C24: the events a worker pushes onto the queue are consumed by the polling
\* loop in the order pushed, each exactly once (the queue only grows at its
\* end and only loses its head, which the poll then acts on), and every
\* pushed event is eventually consumed (the queue is empty again and again);
\* a step of a worker thread leaves the displayed progress value and status
\* text alone.
C24_QueueIsFifoAndDrained ==
    /\ [][/\ \/ /\ Len(progress_queue') >= Len(progress_queue)
                /\ SubSeq(progress_queue', 1, Len(progress_queue))
                       = progress_queue
             \/ /\ progress_queue # << >>
                /\ progress_queue' = Tail(progress_queue)
                /\ frames' = frames
                /\ Head(progress_queue).type = "progress"
                   => /\ gui'.progress_var = Head(progress_queue).progress
                      /\ gui'.status = Head(progress_queue).message
          /\ (\E t \in DOMAIN frames : frames'[t] # frames[t])
             => /\ gui' = gui
                /\ Len(progress_queue') >= Len(progress_queue)
         ]_vars
    /\ []<>(progress_queue = << >>)

\* C24 happens: an analysis pass pushed its 100 % event and its completion,
\* and the poll has consumed both, in that order
C24_Witness ==
    /\ progress_queue = << >>
    /\ gui.progress_var = <<100, 1>>
    /\ gui.status[1] = "Drew treemap"
    /\ gui.dialog = Dialog("showinfo", <<"Analyzed", 3>>)
    /\ \E t \in DOMAIN frames :
          frames[t].op = "analyze_blocks" /\ frames[t].state = "finished"

\* C27: every message a worker pushes is acted on by the polling loop: when
\* the loop takes a message of a correlation pass (its progress, its
\* completion or its error) off the queue, what the interactive side shows
\* (status, progress value, dialog) changes.
C27_CorrelationMessagesAreShown ==
    [][(/\ progress_queue # << >>
        /\ Head(progress_queue).type
               \in {"correlation_progress", "correlation_complete",
                    "correlation_error"}
        /\ ProgressMonitor)
       => gui' # gui]_vars

\* C30: when the polling loop handles the completion of an analysis pass,
\* the analyzer whose blocks the interactive side draws and queries from
\* then on is the one a finished analysis pass populated, also when a new
\* source was loaded while the pass was running.
C30_CompletionShowsThePassBlocks ==
    [][(/\ progress_queue # << >>
        /\ Head(progress_queue).type = "complete"
        /\ ProgressMonitor)
       => \E t \in DOMAIN frames :
             /\ frames[t].op = "analyze_blocks"
             /\ frames[t].state = "finished"
             /\ frames[t].self = gui'.analyzer
             /\ frames[t].result = Head(progress_queue).blocks_analyzed]_vars

-----------------------------------------------------------------------------
(* Claims about the anomaly flags, checked under SpecFlags *)

\* C20: for every TimestampRecord, TimestampImpossible is flagged exactly
\* when mtime and ctime are both present and mtime > ctime, and
\* AccessBeforeModify exactly when mtime and atime are both present and
\* atime < mtime; computing the flags changes neither the record nor any
\* stored Block.  On the Unix clock the instants are compared by their raw
\* seconds, on the FILETIME clock by their microseconds since 1601.
C20_FlagsFollowTimestampOrder ==
    [][CallForensicAnalysis
       => LET Present(k) ==
                  IF probe.clock = "unix" THEN probe.raw[k] # 0
                  ELSE probe.block_data[<<"mtime", "ctime", "atime">>[k]]
                           # None
              Later(j, k) ==
                  IF probe.clock = "unix" THEN probe.raw[j] > probe.raw[k]
                  ELSE BytesGreater(DivTen(probe.raw[j]), DivTen(probe.raw[k]), 1)
          IN  /\ "TimestampImpossible" \in probe'.timestamp_text
                 <=> (Present(1) /\ Present(2) /\ Later(1, 2))
              /\ "AccessBeforeModify" \in probe'.timestamp_text
                 <=> (Present(1) /\ Present(3) /\ Later(1, 3))
              /\ probe'.block_data = probe.block_data
              /\ analyzers' = analyzers
              /\ DOMAIN analyzers[1].blocks # {}
      ]_vars

\* C20 happens: a record whose mtime is one second after its ctime and its
\* atime was shown and got both flags
C20_Witness ==
    /\ probe.op = "show_block_details"
    /\ probe.clock = "unix"
    /\ probe.raw = <<1704067201, 1704067200, 1704067200>>
    /\ probe.timestamp_text = {"TimestampImpossible", "AccessBeforeModify"}

-----------------------------------------------------------------------------
(* Claims about the decoders, checked under SpecParse *)

\* C22: FAT date/time encode followed by _fat_datetime is the identity for
\* all combinations of year in [1980, 2107], month in [1, 12] and day in
\* [1, 31] and all valid times with even seconds; the decoder returns absent
\* for month = 0, month = 13, day = 0 and day = 32.
C22_FatRoundTripOverRanges ==
    [][CallFatDatetime
       => LET c == probe.civil
          IN  /\ (/\ c[2] \in 1..12 /\ c[3] \in 1..31
                  /\ c[4] \in 0..23 /\ c[5] \in 0..59 /\ c[6] \in 0..59)
                 => probe'.returned
                        = [kind |-> "datetime", year |-> c[1], month |-> c[2],
                           day |-> c[3], hour |-> c[4], minute |-> c[5],
                           second |-> c[6]]
              /\ (c[2] \in {0, 13} \/ c[3] \in {0, 32})
                 => probe'.returned = None
      ]_vars

\* C22, amended: the round trip is the identity for every combination that is
\* a date of the calendar (day no greater than the length of the month in
\* that year) with a valid time of even seconds; the decoder returns absent
\* for month = 0, month = 13, day = 0, day = 32, and for a day beyond the end
\* of its month.
C22_FatRoundTripOverCalendar ==
    [][CallFatDatetime
       => LET c == probe.civil
              Length(y, m) ==
                  IF m = 2
                  THEN (IF (y % 4 = 0 /\ y % 100 # 0) \/ y % 400 = 0
                        THEN 29 ELSE 28)
                  ELSE IF m \in {4, 6, 9, 11} THEN 30 ELSE 31
          IN  /\ (/\ c[2] \in 1..12 /\ c[3] \in 1..Length(c[1], c[2])
                  /\ c[4] \in 0..23 /\ c[5] \in 0..59 /\ c[6] \in 0..59)
                 => probe'.returned
                        = [kind |-> "datetime", year |-> c[1], month |-> c[2],
                           day |-> c[3], hour |-> c[4], minute |-> c[5],
                           second |-> c[6]]
              /\ (c[2] \in {0, 13} \/ c[3] \in {0, 32})
                 => probe'.returned = None
              /\ (c[2] \in 1..12 /\ c[3] > Length(c[1], c[2]))
                 => probe'.returned = None
      ]_vars

\* C22 happens: 2004-02-29 23:59:58 was encoded and decoded to itself
C22_Witness ==
    /\ probe.op = "_fat_datetime"
    /\ probe.civil = <<2004, 2, 29, 23, 59, 58>>
    /\ probe.returned # None
    /\ probe.returned.day = 29 /\ probe.returned.second = 58

-----------------------------------------------------------------------------
(* Claims about a long analysis pass, checked under SpecLong *)

=============================================================================
